---- MODULE Spec2Model ----
(***************************************************************************)
(* Model of the satellite telemetry reader: read_data_frame                *)
(* (beacon_frame_schema.c), the calibration functions, the byte swaps and  *)
(* array_duplicate_removal (extended_tools.c), the CSV export and main().  *)
(*                                                                         *)
(* A FILE is a byte sequence `stream` and a position `pos`.  A field of    *)
(* BeaconFrame is the sequence of its bytes in memory, in address order;   *)
(* fread copies wire bytes to memory in order.  The host is little-endian  *)
(* (the build the code assumes: it swaps before every use), so the native  *)
(* value of a field is its little-endian reading.                          *)
(***************************************************************************)
EXTENDS Integers, Sequences, FiniteSets, TLC

VARIABLES
    stream,                     \* contents of the input file
    pos,                        \* file position indicator of `file`
    header,                     \* BeaconHeader.beacon_id.b, 3 bytes
    frame,                      \* BeaconFrame frame / *out
    read_state,                 \* last ReadFileReturnType, "NONE" before a call
    diag,                       \* what the last read_data_frame call printed
    pc,                         \* position of the control flow
    file_state,                 \* "unopened", "open", "closed"
    fclose_count,               \* number of fclose(file) calls
    thermal_telemetry_array,    \* elements of the thermal series storage
    thermal_length,
    thermal_capacity,
    thermal_mem,                \* "NULL", "allocated", "freed", "double_freed"
    sun_sensor_telemetry_array,
    sun_sensor_length,
    sun_sensor_capacity,
    sun_mem,
    growths,                    \* growth events per series
    thermal_csv,                \* thermal_data.csv: "absent" or its rows
    sun_csv,                    \* sun_sensor_data.csv: "absent" or its rows
    exit_status,                \* -1 while running
    \* history of the last read_data_frame call and of the inputs
    n_calls,                    \* number of read_data_frame calls made
    call_pos,                   \* pos when the last call started
    call_frame,                 \* *out when the last call started
    sync_pos,                   \* pos right after the marker scan of the last call
    fail,                       \* where and why the last call failed
    sent,                       \* the frames encoded into the stream, in order
    hist                        \* inputs of the sort and of the compaction

vars == <<stream, pos, header, frame, read_state, diag, pc, file_state,
          fclose_count, thermal_telemetry_array, thermal_length,
          thermal_capacity, thermal_mem, sun_sensor_telemetry_array,
          sun_sensor_length, sun_sensor_capacity, sun_mem, growths,
          thermal_csv, sun_csv, exit_status, n_calls, call_pos, call_frame,
          sync_pos, fail, sent, hist>>

----------------------------------------------------------------------------
(* Bounds of the model *)

MaxFrames == 3          \* well-formed frames in a stream given to main
MaxReadFrames == 1      \* well-formed frames before the last one, read harness
MaxCalls == 3           \* read_data_frame calls made by the read harness
MaxShort == 5           \* length of the free-form streams of the read harness
MaxN == 5               \* length of the series given to the compaction harness
MaxCollected == 257     \* frames in the stream of the collection loop

----------------------------------------------------------------------------
(* Integer helpers *)

Min(a, b) == IF a < b THEN a ELSE b

\* the one element of a singleton; { F(x) : x \in {e} } evaluates e once
Only(S) == CHOOSE x \in S : TRUE

Pow2_8 == 2^8
Pow2_16 == 2^16
Pow2_24 == 2^24

\* uint16_t held in memory as bytes b (little-endian host load)
LoadU16(b) == b[1] + Pow2_8 * b[2]

\* uint32_t held in memory as bytes b (little-endian host load)
LoadU32(b) == b[1] + Pow2_8 * b[2] + Pow2_16 * b[3] + Pow2_24 * b[4]

\* conversion of a uint16_t to int16_t (two's complement)
ToInt16(u) == IF u >= 32768 THEN u - Pow2_16 ELSE u

\* conversion of an int16_t to uint16_t
ToUint16(i) == IF i < 0 THEN i + Pow2_16 ELSE i

\* big-endian wire encodings, as the satellite writes them
BE16(v) == << v \div Pow2_8, v % Pow2_8 >>
BE32(v) == << v \div Pow2_24, (v \div Pow2_16) % Pow2_8, (v \div Pow2_8) % Pow2_8, v % Pow2_8 >>

----------------------------------------------------------------------------
(* extended_tools.c: byte swaps *)

\* the swap without the cast back to 16 bits
byte16_swap_NoCast(value_to_swap) ==
    (value_to_swap \div Pow2_8) + (value_to_swap * Pow2_8)

\* (uint16_t)((value_to_swap >> 8) | (value_to_swap << 8))
byte16_swap(value_to_swap) ==
    ((value_to_swap \div Pow2_8) + (value_to_swap * Pow2_8)) % Pow2_16

\* a swap that exchanges the two outer bytes and leaves the two inner ones
byte32_swap_OuterOnly(value_to_swap) ==
    (value_to_swap % Pow2_8) * Pow2_24
    + ((value_to_swap \div Pow2_16) % Pow2_8) * Pow2_16
    + ((value_to_swap \div Pow2_8) % Pow2_8) * Pow2_8
    + ((value_to_swap \div Pow2_24) % Pow2_8)

\* the four masked shifts of byte32_swap, or-ed (the parts do not overlap)
byte32_swap(value_to_swap) ==
    (value_to_swap % Pow2_8) * Pow2_24
    + ((value_to_swap \div Pow2_8) % Pow2_8) * Pow2_16
    + ((value_to_swap \div Pow2_16) % Pow2_8) * Pow2_8
    + ((value_to_swap \div Pow2_24) % Pow2_8)

----------------------------------------------------------------------------
(* beacon_frame_schema.h: the schema *)

IS_BIG_ENDIAN == TRUE

PLATFORM_ID == 1
MEMORY_ID == 257
CDH_ID == 513
POWER_ID == 769
THERMAL_ID == 1025
AOCS_ID == 1281
PAYLOAD_ID == 1537

\* a field read by READ_FIELD: name, sizeof, section (1..7) and, for a section
\* identifier, the FrameID it is compared with (-1 for the other fields)
Fld(n, w, s, i) == [name |-> n, width |-> w, section |-> s, id |-> i]

PlatformFields ==
    << Fld("platform_telemetry_id", 2, 1, PLATFORM_ID), Fld("uptime_s", 4, 1, -1),
       Fld("rtc_s", 4, 1, -1), Fld("resetCount", 3, 1, -1),
       Fld("currentMode", 1, 1, -1), Fld("lastBootReason", 4, 1, -1) >>

MemoryFields ==
    << Fld("memory_telemetry_id", 2, 2, MEMORY_ID), Fld("heap_free_bytes", 4, 2, -1) >>

CDHFields ==
    << Fld("cdh_id", 2, 3, CDH_ID), Fld("lastSeenSequenceNumber", 4, 3, -1),
       Fld("antennaDeployStatus", 1, 3, -1) >>

PowerFields ==
    << Fld("power_telemetry_id", 2, 4, POWER_ID), Fld("low_voltage_counter", 2, 4, -1),
       Fld("nice_battery_mV", 2, 4, -1), Fld("raw_battery_mV", 2, 4, -1),
       Fld("battery_A", 2, 4, -1), Fld("pcm_3v3_V", 2, 4, -1),
       Fld("pcm_3v3_A", 2, 4, -1), Fld("pcm_5v_V", 2, 4, -1),
       Fld("pcm_5v_A", 2, 4, -1) >>

ThermalFields ==
    << Fld("thermal_telemetry_id", 2, 5, THERMAL_ID), Fld("CPU_C", 2, 5, -1),
       Fld("mirror_cell_C", 2, 5, -1) >>

AOCSFields ==
    << Fld("aocs_telemetry_id", 2, 6, AOCS_ID), Fld("aocs_mode", 4, 6, -1),
       Fld("sunvectorX", 2, 6, -1), Fld("sunvectorY", 2, 6, -1),
       Fld("sunvectorZ", 2, 6, -1), Fld("magnetometerX_mg", 2, 6, -1),
       Fld("magnetometerY_mg", 2, 6, -1), Fld("magnetometerZ_mg", 2, 6, -1),
       Fld("gyroX_dps", 2, 6, -1), Fld("gyroY_dps", 2, 6, -1),
       Fld("gyroZ_dps", 2, 6, -1), Fld("temperature_IMU_C", 2, 6, -1),
       Fld("fine_gyroX_dps", 4, 6, -1), Fld("fine_gyroY_dps", 4, 6, -1),
       Fld("fine_gyroZ_dps", 4, 6, -1), Fld("wheel_1_radsec", 2, 6, -1),
       Fld("wheel_2_radsec", 2, 6, -1), Fld("wheel_3_radsec", 2, 6, -1),
       Fld("wheel_4_radsec", 2, 6, -1) >>

PayloadFields ==
    << Fld("payload_telemetry_id", 2, 7, PAYLOAD_ID), Fld("experimentsRun", 2, 7, -1),
       Fld("experimentsFailed", 2, 7, -1), Fld("lastExperimentRun", 2, 7, -1),
       Fld("currentState", 1, 7, -1) >>

\* the fields in the order read_data_frame reads them
\* a decoder that reads the Memory section before the Platform section
Fields_MemoryFirst ==
    MemoryFields \o PlatformFields \o CDHFields \o PowerFields \o ThermalFields
    \o AOCSFields \o PayloadFields

Fields ==
    PlatformFields \o MemoryFields \o CDHFields \o PowerFields \o ThermalFields
    \o AOCSFields \o PayloadFields

NFields == Len(Fields)

FieldNames == { Fields[k].name : k \in 1..NFields }

\* offset of field k from the end of the marker: the widths read before it
RECURSIVE FieldOffset(_)
FieldOffset(k) == IF k = 1 THEN 0 ELSE FieldOffset(k - 1) + Fields[k - 1].width

\* bytes read by a call that returns READ_OK, after the marker
FrameBytes == FieldOffset(NFields) + Fields[NFields].width

----------------------------------------------------------------------------
(* beacon_frame_schema.c: read_data_frame *)

NoFail == [field |-> 0, kind |-> "none"]
NoDiag == [section |-> 0, read |-> 0, expected |-> 0]

\* the classic wrong window: restart from empty after three unmatched bytes
WindowShiftRestart(header_match, header_index, byte_read) ==
    IF header_index < 3
    THEN [match |-> [header_match EXCEPT ![header_index + 1] = byte_read],
          index |-> header_index + 1]
    ELSE [match |-> <<byte_read, 0, 0>>, index |-> 1]

\* lines 40-49: fill the window, then slide it by one byte
WindowShift(header_match, header_index, byte_read) ==
    IF header_index < 3
    THEN [match |-> [header_match EXCEPT ![header_index + 1] = byte_read],
          index |-> header_index + 1]
    ELSE [match |-> <<header_match[2], header_match[3], byte_read>>,
          index |-> header_index]

\* the comparison without the guard that three bytes have been read
HeaderFound_NoIndex(header_match, header_index, beacon_id) ==
    /\ header_match[1] = beacon_id[1]
    /\ header_match[2] = beacon_id[2]
    /\ header_match[3] = beacon_id[3]

\* lines 50-53
HeaderFound(header_match, header_index, beacon_id) ==
    /\ header_index = 3
    /\ header_match[1] = beacon_id[1]
    /\ header_match[2] = beacon_id[2]
    /\ header_match[3] = beacon_id[3]

\* One iteration of the loop of lines 35-57 that read a byte: w is the window
\* after lines 40-49, st.pos the file position before the fgetc
ScanStepWith(beacon_id, st, w) ==
    [found |-> HeaderFound(w.match, w.index, beacon_id), pos |-> st.pos + 1,
     match |-> w.match, index |-> w.index]

ScanStep(beacon_id, st, byte_read) ==
    ScanStepWith(beacon_id, st, WindowShift(st.match, st.index, byte_read))

\* The iterations of the loop over the bytes at positions a .. b-1, from loop
\* state st; the break of line 55 ends them.  The range is halved instead of
\* walked byte by byte only to keep the evaluation shallow: the bytes are
\* still taken in order, each by ScanStep
RECURSIVE ScanRange(_, _, _, _, _)
ScanRange(s, beacon_id, a, b, st) ==
    IF st.found \/ a >= b THEN st
    ELSE IF b = a + 1 THEN ScanStep(beacon_id, st, s[a + 1])
    ELSE ScanRange(s, beacon_id, (a + b) \div 2, b,
                   ScanRange(s, beacon_id, a, (a + b) \div 2, st))

\* lines 31-57: header_match = {0,0,0}, header_index = 0, then fgetc until the
\* window holds the marker; at the end of the file fgetc returns EOF and the
\* scan stops unfound, with the position at the end
ScanHeader(s, p, beacon_id) ==
    ScanRange(s, beacon_id, p, Len(s),
              [found |-> FALSE, pos |-> p, match |-> <<0, 0, 0>>, index |-> 0])

\* a READ_FIELD that only checks that fread read something
READ_FIELD_AnyBytes(s, p, old, width) ==
    LET n == Min(width, Len(s) - p)
    IN  [ok |-> n > 0, pos |-> p + n,
         bytes |-> [j \in 1..width |-> IF j <= n THEN s[p + j] ELSE old[j]]]

\* READ_FIELD: fread(ptr, 1, sizeof *ptr, file) == sizeof *ptr.  fread stores
\* the bytes it could read, advances by them and leaves the rest of the field
READ_FIELD(s, p, old, width) ==
    LET n == Min(width, Len(s) - p)
    IN  [ok |-> n = width, pos |-> p + n,
         bytes |-> [j \in 1..width |-> IF j <= n THEN s[p + j] ELSE old[j]]]

\* an identifier check that forgets the swap
IdMismatchNoSwap(expected, bytes) == expected # LoadU16(bytes)

\* X_ID != (IS_BIG_ENDIAN ? byte16_swap(out->x_id) : out->x_id)
IdMismatch(expected, bytes) ==
    expected # (IF IS_BIG_ENDIAN THEN byte16_swap(LoadU16(bytes)) ELSE LoadU16(bytes))

\* a decoder that converts each identifier in place once it has been read
AfterField_SwapsIdInPlace(st, k, r) ==
    IF ~r.ok
    THEN [state |-> "READ_FAIL", pos |-> r.pos,
          out |-> [st.out EXCEPT ![Fields[k].name] = r.bytes],
          fail |-> [field |-> k, kind |-> "short"], diag |-> NoDiag]
    ELSE IF Fields[k].id # -1 /\ IdMismatch(Fields[k].id, r.bytes)
    THEN [state |-> "READ_FAIL", pos |-> r.pos,
          out |-> [st.out EXCEPT ![Fields[k].name] = r.bytes],
          fail |-> [field |-> k, kind |-> "mismatch"],
          diag |-> [section |-> Fields[k].section,
                    read |-> byte16_swap(LoadU16(r.bytes)),
                    expected |-> Fields[k].id]]
    ELSE [state |-> "READING", pos |-> r.pos,
          out |-> [st.out EXCEPT ![Fields[k].name] =
                      IF Fields[k].id # -1 THEN <<r.bytes[2], r.bytes[1]>>
                      ELSE r.bytes],
          fail |-> NoFail, diag |-> NoDiag]

\* lines 63-174, one field: r is the READ_FIELD of field k.  A short read and
\* a wrong identifier both return READ_FAIL; only the second prints
AfterField(st, k, r) ==
    IF ~r.ok
    THEN [state |-> "READ_FAIL", pos |-> r.pos,
          out |-> [st.out EXCEPT ![Fields[k].name] = r.bytes],
          fail |-> [field |-> k, kind |-> "short"], diag |-> NoDiag]
    ELSE IF Fields[k].id # -1 /\ IdMismatch(Fields[k].id, r.bytes)
    THEN [state |-> "READ_FAIL", pos |-> r.pos,
          out |-> [st.out EXCEPT ![Fields[k].name] = r.bytes],
          fail |-> [field |-> k, kind |-> "mismatch"],
          diag |-> [section |-> Fields[k].section,
                    read |-> byte16_swap(LoadU16(r.bytes)),
                    expected |-> Fields[k].id]]
    ELSE [state |-> "READING", pos |-> r.pos,
          out |-> [st.out EXCEPT ![Fields[k].name] = r.bytes],
          fail |-> NoFail, diag |-> NoDiag]

FieldStep(s, st, k) ==
    AfterField(st, k, READ_FIELD(s, st.pos, st.out[Fields[k].name], Fields[k].width))

\* The fields a .. b in order, from st; a return ends them.  The range is
\* halved for the same reason as in ScanRange
RECURSIVE FoldFields(_, _, _, _)
FoldFields(s, a, b, st) ==
    IF st.state # "READING" THEN st
    ELSE IF a = b THEN FieldStep(s, st, a)
    ELSE FoldFields(s, ((a + b) \div 2) + 1, b, FoldFields(s, a, (a + b) \div 2, st))

\* lines 63-174: every field read without a failure is READ_OK
ReadFieldsEnd(st) ==
    IF st.state = "READING" THEN [st EXCEPT !.state = "READ_OK"] ELSE st

ReadFields(s, p, out) ==
    ReadFieldsEnd(FoldFields(s, 1, NFields,
        [state |-> "READING", pos |-> p, out |-> out, fail |-> NoFail, diag |-> NoDiag]))

\* the part of read_data_frame after the scan sc
AfterScan(s, out, sc) ==
    IF ~sc.found
    THEN [state |-> "READ_EOF", pos |-> sc.pos, out |-> out, sync |-> -1,
          fail |-> NoFail, diag |-> NoDiag]
    ELSE Only({ [state |-> r.state, pos |-> r.pos, out |-> r.out,
                 sync |-> sc.pos, fail |-> r.fail, diag |-> r.diag] :
                r \in {ReadFields(s, sc.pos, out)} })

\* read_data_frame(file, header, out) with file and out not NULL (main passes
\* an open file and &frame): the result, the new position and the new *out
read_data_frame(s, p, beacon_id, out) ==
    Only({ AfterScan(s, out, sc) : sc \in {ScanHeader(s, p, beacon_id)} })

----------------------------------------------------------------------------
(* The streams the model feeds to the program *)

\* main.c line 49: the marker main looks for
MainHeader == <<255, 255, 240>>

\* timestamps put on the wire (rtc_s); every byte is below 128 so that the
\* unswapped native value also fits the integers of the checker
TsSet == {50, 100, 256}

\* raw thermal and sun vector codes put on the wire, per payload variant
CpuRaw == <<2500, -300>>
MirrorRaw == <<-1, 1234>>
SunXRaw == <<16384, -8192>>
SunYRaw == <<0, 2048>>
SunZRaw == <<-16384, 1>>
Variants == 1..2

\* the wire bytes of field k of a well-formed frame with timestamp ts, variant v
FieldWire(k, ts, v) ==
    LET f == Fields[k]
    IN  IF f.id # -1 THEN BE16(f.id)
        ELSE IF f.name = "rtc_s" THEN BE32(ts)
        ELSE IF f.name = "CPU_C" THEN BE16(ToUint16(CpuRaw[v]))
        ELSE IF f.name = "mirror_cell_C" THEN BE16(ToUint16(MirrorRaw[v]))
        ELSE IF f.name = "sunvectorX" THEN BE16(ToUint16(SunXRaw[v]))
        ELSE IF f.name = "sunvectorY" THEN BE16(ToUint16(SunYRaw[v]))
        ELSE IF f.name = "sunvectorZ" THEN BE16(ToUint16(SunZRaw[v]))
        ELSE [j \in 1..f.width |-> (5 * k + j + v) % 128]

RECURSIVE GoodFrameFrom(_, _, _)
GoodFrameFrom(k, ts, v) ==
    IF k > NFields THEN <<>> ELSE FieldWire(k, ts, v) \o GoodFrameFrom(k + 1, ts, v)

\* the 110 bytes of a well-formed frame
GoodFrame(ts, v) == GoodFrameFrom(1, ts, v)

\* index in Fields of the identifier of section sec
IdField(sec) == CHOOSE k \in 1..NFields : Fields[k].section = sec /\ Fields[k].id # -1

\* wrong identifier bytes for section sec: the expected ones in the wrong
\* order, or one more where both orders read the same
WrongIdBytes(sec) ==
    LET e == BE16(Fields[IdField(sec)].id)
    IN  IF e[1] # e[2] THEN <<e[2], e[1]>> ELSE <<e[1], e[2] + 1>>

\* g with the identifier at offset o replaced by the bytes wrong
WithBytesAt(g, o, wrong) ==
    [j \in 1..Len(g) |-> IF j = o + 1 THEN wrong[1] ELSE IF j = o + 2 THEN wrong[2] ELSE g[j]]

\* a frame whose section bad (0: none) has a wrong identifier, cut to its
\* first cut bytes
DamagedFrame(ts, v, bad, cut) ==
    IF bad = 0 THEN SubSeq(GoodFrame(ts, v), 1, cut)
    ELSE Only({ SubSeq(WithBytesAt(g, o, wrong), 1, cut) :
                g \in {GoodFrame(ts, v)}, o \in {FieldOffset(IdField(bad))},
                wrong \in {WrongIdBytes(bad)} })

\* bytes found in front of a marker
Prefixes == << <<>>, <<0, 255>> >>

\* the bytes of the well-formed frames items (records [ts, v]), each after
\* prefix number pre and the marker
RECURSIVE GoodFrames(_, _)
GoodFrames(items, pre) ==
    IF items = <<>> THEN <<>>
    ELSE Prefixes[pre] \o MainHeader \o GoodFrame(items[1].ts, items[1].v)
         \o GoodFrames(Tail(items), pre)

Items == [ts : TsSet, v : Variants]

ItemSeqs(n) == UNION { [1..m -> Items] : m \in 0..n }

----------------------------------------------------------------------------
(* thermal_calibrated.c, sun_sensors_calibrated.c: calibration *)

\* A float is modelled as the exact ratio num/den of the formula that made it;
\* the rounding of the float multiplication by 0.01f is not modelled.

\* ((float)(value) * 0.01f)
TEMP_C_PHYSICAL_VALUE(value) == [num |-> value, den |-> 100]

\* ((float)(value) / 16384.0f)
SUN_SENSORS_PHYSICAL_VALUE(value) == [num |-> value, den |-> 16384]

\* a calibration that takes the swapped value as it comes back from
\* byte16_swap, unsigned
SwappedInt16_Unsigned(bytes) ==
    IF IS_BIG_ENDIAN THEN byte16_swap(LoadU16(bytes)) ELSE LoadU16(bytes)

\* int16_t x = field; x = byte16_swap(x): the field's native value, converted
\* to the uint16_t parameter, swapped, converted back to int16_t
SwappedInt16(bytes) ==
    IF IS_BIG_ENDIAN
    THEN ToInt16(byte16_swap(ToUint16(ToInt16(LoadU16(bytes)))))
    ELSE ToInt16(LoadU16(bytes))

\* uint32_t ts = timestamp; ts = byte32_swap(ts)
SwappedTimestamp(timestamp) ==
    IF IS_BIG_ENDIAN THEN byte32_swap(timestamp) ELSE timestamp

\* thermal_to_calibrated(&frame.thermal, timestamp)
thermal_to_calibrated(fr, timestamp) ==
    [thermal_telemetry_timestamp |-> SwappedTimestamp(timestamp),
     CPU_C |-> TEMP_C_PHYSICAL_VALUE(SwappedInt16(fr["CPU_C"])),
     mirror_cell_C |-> TEMP_C_PHYSICAL_VALUE(SwappedInt16(fr["mirror_cell_C"]))]

\* a sun sensors calibration that keeps the timestamp as it was stored
sun_sensors_to_calibrated_NoTsSwap(fr, timestamp) ==
    [sun_sensors_telemetry_timestamp |-> timestamp,
     sun_vector_x |-> SUN_SENSORS_PHYSICAL_VALUE(SwappedInt16(fr["sunvectorX"])),
     sun_vector_y |-> SUN_SENSORS_PHYSICAL_VALUE(SwappedInt16(fr["sunvectorY"])),
     sun_vector_z |-> SUN_SENSORS_PHYSICAL_VALUE(SwappedInt16(fr["sunvectorZ"]))]

\* sun_sensors_to_calibrated(&frame.aocs, timestamp)
sun_sensors_to_calibrated(fr, timestamp) ==
    [sun_sensors_telemetry_timestamp |-> SwappedTimestamp(timestamp),
     sun_vector_x |-> SUN_SENSORS_PHYSICAL_VALUE(SwappedInt16(fr["sunvectorX"])),
     sun_vector_y |-> SUN_SENSORS_PHYSICAL_VALUE(SwappedInt16(fr["sunvectorY"])),
     sun_vector_z |-> SUN_SENSORS_PHYSICAL_VALUE(SwappedInt16(fr["sunvectorZ"]))]

thermal_timestamp_comparator(x, y) ==
    IF x.thermal_telemetry_timestamp < y.thermal_telemetry_timestamp THEN -1
    ELSE IF x.thermal_telemetry_timestamp > y.thermal_telemetry_timestamp THEN 1
    ELSE 0

\* a comparator that orders the later timestamp first
sun_sensors_timestamp_comparator_Descending(x, y) ==
    IF x.sun_sensors_telemetry_timestamp > y.sun_sensors_telemetry_timestamp THEN -1
    ELSE IF x.sun_sensors_telemetry_timestamp < y.sun_sensors_telemetry_timestamp THEN 1
    ELSE 0

sun_sensors_timestamp_comparator(x, y) ==
    IF x.sun_sensors_telemetry_timestamp < y.sun_sensors_telemetry_timestamp THEN -1
    ELSE IF x.sun_sensors_telemetry_timestamp > y.sun_sensors_telemetry_timestamp THEN 1
    ELSE 0

\* the comparator function pointer handed to qsort and array_duplicate_removal
Comparator(kind, x, y) ==
    IF kind = "thermal" THEN thermal_timestamp_comparator(x, y)
    ELSE sun_sensors_timestamp_comparator(x, y)

----------------------------------------------------------------------------
(* qsort and extended_tools.c: array_duplicate_removal *)

\* qsort(array, n, size, comparator): the order of elements that compare equal
\* is unspecified, so every arrangement of the first n elements that is
\* ascending by the comparator is a possible result.  SortedOrders gives the
\* index sequences of these arrangements
RECURSIVE SortedOrders(_, _, _)
SortedOrders(array, idx, kind) ==
    IF idx = {} THEN { <<>> }
    ELSE LET least == { i \in idx : \A j \in idx : Comparator(kind, array[i], array[j]) <= 0 }
         IN  UNION { { <<i>> \o rest : rest \in SortedOrders(array, idx \ {i}, kind) } :
                     i \in least }

\* a run that leaves the series in arrival order
qsort_NoSort(array, n, kind) == { array }

qsort(array, n, kind) ==
    { [j \in 1..Len(array) |-> IF j <= n THEN array[order[j]] ELSE array[j]] :
      order \in SortedOrders(array, 1..n, kind) }

\* a pass that compares with the element just before instead of the last kept
\* one, and so copies nothing
DedupStep_CountOnly(array, kind, i, keep_index) ==
    IF Comparator(kind, array[i + 1], array[i]) # 0
    THEN [array |-> array, keep_index |-> keep_index + 1]
    ELSE [array |-> array, keep_index |-> keep_index]

\* a pass that keeps the last element of each run: an equal element replaces
\* the one kept before it
DedupStep_KeepLast(array, kind, i, keep_index) ==
    IF Comparator(kind, array[i + 1], array[keep_index]) # 0
    THEN [array |-> IF keep_index # i
                    THEN [array EXCEPT ![keep_index + 1] = array[i + 1]]
                    ELSE array,
          keep_index |-> keep_index + 1]
    ELSE [array |-> [array EXCEPT ![keep_index] = array[i + 1]],
          keep_index |-> keep_index]

\* lines 45-56, the body of the loop for index i (from 0, as in the code; the
\* sequence is indexed from 1): current is element i, previous element
\* keep_index - 1
DedupStep(array, kind, i, keep_index) ==
    IF Comparator(kind, array[i + 1], array[keep_index]) # 0
    THEN [array |-> IF keep_index # i
                    THEN [array EXCEPT ![keep_index + 1] = array[i + 1]]
                    ELSE array,
          keep_index |-> keep_index + 1]
    ELSE [array |-> array, keep_index |-> keep_index]

\* lines 44-57: for (i = 1; i < n; ++i)
RECURSIVE DedupLoop(_, _, _, _, _)
DedupLoop(array, n, kind, i, keep_index) ==
    IF i >= n THEN [array |-> array, ret |-> keep_index]
    ELSE LET st == DedupStep(array, kind, i, keep_index)
         IN  DedupLoop(st.array, n, kind, i + 1, st.keep_index)

\* array_duplicate_removal(array, n, size, comparator), size and comparator
\* given; an empty series has n = 0 (and, in main, a NULL array)
array_duplicate_removal(array, n, kind) ==
    IF n = 0 THEN [array |-> array, ret |-> 0]
    ELSE DedupLoop(array, n, kind, 1, 1)

----------------------------------------------------------------------------
(* csv_tool.c and the line formatters *)

CSV_DECIMAL_PRECISION == 2

RECURSIVE Pow10(_)
Pow10(n) == IF n = 0 THEN 1 ELSE 10 * Pow10(n - 1)

\* a / b rounded to the nearest integer, ties to even, as printf rounds
RoundDiv(a, b) ==
    LET m == IF a < 0 THEN -a ELSE a
        q == m \div b
        r == m % b
        up == IF 2 * r > b \/ (2 * r = b /\ q % 2 = 1) THEN q + 1 ELSE q
    IN  IF a < 0 THEN -up ELSE up

\* "%.*f": the value in units of 10^-precision
FormatFloat(value, precision) ==
    [units |-> RoundDiv(value.num * Pow10(precision), value.den), decimals |-> precision]

\* lines 70-71 of both formatters
ClampPrecision(precision) ==
    IF precision < 0 THEN 0 ELSE IF precision > 9 THEN 9 ELSE precision

\* "%u;%.*f;%.*f": the line always fits MAX_LINE_BUFFER
thermal_calibrated_to_csv_line(rec, precision) ==
    << rec.thermal_telemetry_timestamp,
       FormatFloat(rec.CPU_C, ClampPrecision(precision)),
       FormatFloat(rec.mirror_cell_C, ClampPrecision(precision)) >>

\* "%u;%.*f;%.*f;%.*f"
sun_sensors_calibrated_to_csv_line(rec, precision) ==
    << rec.sun_sensors_telemetry_timestamp,
       FormatFloat(rec.sun_vector_x, ClampPrecision(precision)),
       FormatFloat(rec.sun_vector_y, ClampPrecision(precision)),
       FormatFloat(rec.sun_vector_z, ClampPrecision(precision)) >>

CsvLine(kind, rec, precision) ==
    IF kind = "thermal" THEN thermal_calibrated_to_csv_line(rec, precision)
    ELSE sun_sensors_calibrated_to_csv_line(rec, precision)

CsvColumns(kind) ==
    IF kind = "thermal" THEN <<"rtc_s", "CPU_C", "mirror_cell_C">>
    ELSE <<"rtc_s", "sun_vector_x", "sun_vector_y", "sun_vector_z">>

\* no export of the series was attempted
NoCsv == [exists |-> FALSE, columns |-> <<>>, rows |-> <<>>, status |-> 0]

\* write_array_to_csv(filename, array, array_length, ...): what it can leave
\* and return.  Invalid arguments or a failed fopen return -1 and write no
\* file; a failed header write returns -1 with an empty file; a failed
\* fprintf at element i returns -1 with the rows before it written; otherwise the header and the first array_length elements are
\* written and it returns 1
write_array_to_csv(array, array_length, kind, precision) ==
    IF array_length = 0
    THEN { [exists |-> FALSE, columns |-> <<>>, rows |-> <<>>, status |-> -1] }
    ELSE { [exists |-> FALSE, columns |-> <<>>, rows |-> <<>>, status |-> -1],
           [exists |-> TRUE, columns |-> <<>>, rows |-> <<>>, status |-> -1] }
         \cup { [exists |-> TRUE, columns |-> CsvColumns(kind),
                 rows |-> [j \in 1..written |-> CsvLine(kind, array[j], precision)],
                 status |-> IF written = array_length THEN 1 ELSE -1] :
                written \in 0..array_length }

\* what is in `BeaconFrame frame` before the first read: the object is not
\* initialised, so its bytes are whatever the stack held; two fills stand for it
FrameFilledWith(b) == [n \in FieldNames |->
    LET k == CHOOSE i \in 1..NFields : Fields[i].name = n
    IN  [j \in 1..Fields[k].width |-> b]]

InitFrames == { FrameFilledWith(0), FrameFilledWith(85) }

----------------------------------------------------------------------------
(* State shared by the specifications *)

\* nothing sorted or compacted yet
NoHist == [unsorted |-> <<>>, sorted |-> <<>>, n |-> -1]

\* the variables main() owns but the history, before main() has run
MainVarsInitBut ==
    /\ file_state = "unopened"
    /\ fclose_count = 0
    /\ thermal_telemetry_array = <<>>
    /\ thermal_length = 0
    /\ thermal_capacity = 0
    /\ thermal_mem = "NULL"
    /\ sun_sensor_telemetry_array = <<>>
    /\ sun_sensor_length = 0
    /\ sun_sensor_capacity = 0
    /\ sun_mem = "NULL"
    /\ growths = [thermal |-> 0, sun |-> 0]
    /\ thermal_csv = NoCsv
    /\ sun_csv = NoCsv
    /\ exit_status = -1

\* the variables main() owns, before main() has run
MainVarsInit ==
    /\ MainVarsInitBut
    /\ hist = [thermal |-> NoHist, sun |-> NoHist]

ReadVarsInit ==
    /\ pos = 0
    /\ read_state = "NONE"
    /\ diag = NoDiag
    /\ n_calls = 0
    /\ call_pos = 0
    /\ call_frame = frame
    /\ sync_pos = -1
    /\ fail = NoFail

mainVars == <<file_state, fclose_count, thermal_telemetry_array, thermal_length,
              thermal_capacity, thermal_mem, sun_sensor_telemetry_array,
              sun_sensor_length, sun_sensor_capacity, sun_mem, growths,
              thermal_csv, sun_csv, exit_status, hist>>

mainVarsBut == <<file_state, fclose_count, thermal_telemetry_array, thermal_length,
                 thermal_capacity, thermal_mem, sun_sensor_telemetry_array,
                 sun_sensor_length, sun_sensor_capacity, sun_mem, growths,
                 thermal_csv, sun_csv, exit_status>>

readVars == <<pos, frame, read_state, diag, n_calls, call_pos, call_frame,
              sync_pos, fail>>

\* one call read_data_frame(file, header, &frame) and what it leaves behind
CallRead ==
    \E r \in {read_data_frame(stream, pos, header, frame)} :
        /\ pos' = r.pos
        /\ frame' = r.out
        /\ read_state' = r.state
        /\ diag' = r.diag
        /\ n_calls' = n_calls + 1
        /\ call_pos' = pos
        /\ call_frame' = frame
        /\ sync_pos' = r.sync
        /\ fail' = r.fail

----------------------------------------------------------------------------
(* SpecRead: read_data_frame called repeatedly on one stream *)

\* bytes of the free-form streams
Alphabet == {0, 240, 255}

\* markers looked for in the free-form streams: the one of main, one that
\* overlaps itself, the initial content of the window, and two more
Markers == { MainHeader, <<255, 255, 255>>, <<0, 0, 0>>, <<255, 240, 255>>,
             <<240, 0, 240>>, <<0, 255, 255>> }

\* damage done to the last frame of a harness stream: a wrong identifier in
\* any one section, a cut at any byte, or a cut together with a wrong
\* identifier in the Platform or the Thermal section
Damages ==
    { [bad |-> b, cut |-> FrameBytes] : b \in 0..7 }
    \cup { [bad |-> b, cut |-> c] : b \in {0, 1, 5}, c \in 0..(FrameBytes - 1) }

ShortStreams == UNION { [1..m -> Alphabet] : m \in 0..MaxShort }

RECURSIVE Repeat(_, _)
Repeat(x, n) == IF n = 0 THEN <<>> ELSE <<x>> \o Repeat(x, n - 1)

\* n well-formed frames, then one frame with section bad damaged and cut to
\* its first cut bytes, then (more) a further well-formed frame
HarnessStream(n, pre, bad, cut, more) ==
    GoodFrames(Repeat([ts |-> 50, v |-> 1], n), pre)
    \o Prefixes[pre] \o MainHeader \o DamagedFrame(100, 2, bad, cut)
    \o (IF more THEN GoodFrames(<<[ts |-> 256, v |-> 1]>>, pre) ELSE <<>>)

InitRead ==
    /\ \/ /\ header \in Markers
          /\ stream \in ShortStreams
          /\ frame = FrameFilledWith(0)
       \/ /\ header = MainHeader
          /\ \E n \in 0..MaxReadFrames, pre \in 1..Len(Prefixes), d \in Damages,
                more \in BOOLEAN :
                stream = HarnessStream(n, pre, d.bad, d.cut, more)
          /\ frame \in InitFrames
    /\ sent = <<>>
    /\ pc = "harness"
    /\ ReadVarsInit
    /\ MainVarsInit

HarnessRead ==
    /\ pc = "harness"
    /\ n_calls < MaxCalls
    /\ CallRead
    /\ UNCHANGED <<stream, header, pc, sent>>
    /\ UNCHANGED mainVars

NextRead == HarnessRead

SpecRead == InitRead /\ [][NextRead]_vars

----------------------------------------------------------------------------
(* Spec: main() *)

\* what follows the well-formed frames of a stream given to main: nothing,
\* bytes without a marker, a frame with a wrong Thermal identifier, a frame
\* cut in the AOCS section
MainTails ==
    { <<>>, <<0, 255, 255>>,
      MainHeader \o DamagedFrame(100, 1, 5, FrameBytes),
      MainHeader \o DamagedFrame(100, 1, 0, 60) }

\* the frames of a stream given to main: any timestamps, the raw values
\* alternating from one frame to the next
MainItemSeqs(n) ==
    UNION { { [i \in 1..m |-> [ts |-> t[i], v |-> 1 + (i % 2)]] :
              t \in [1..m -> TsSet] } : m \in 0..n }

Init ==
    /\ header = MainHeader
    /\ \E items \in MainItemSeqs(MaxFrames), pre \in 1..Len(Prefixes), tail \in MainTails :
          /\ stream = GoodFrames(items, pre) \o tail
          /\ sent = items
    /\ frame \in InitFrames
    /\ pc = "start"
    /\ ReadVarsInit
    /\ MainVarsInit

\* free(ptr)
Free(mem) ==
    IF mem = "NULL" THEN "NULL"
    ELSE IF mem = "allocated" THEN "freed"
    ELSE "double_freed"

\* fclose(file)
Fclose ==
    /\ file_state' = "closed"
    /\ fclose_count' = fclose_count + 1

\* return status from main
Exit(status) ==
    /\ exit_status' = status
    /\ pc' = "exit"

\* a loop that skips a frame that failed and goes on reading
LoopCondition_SkipFailed(state) == state # "READ_EOF"

\* a loop that only a failure ends: it goes on after the end of the stream
LoopCondition_AlsoEof(state) == state # "READ_FAIL"

\* line 67: while (read_state == READ_OK)
LoopCondition(state) == state = "READ_OK"

\* a storage that doubles when full
NewCapacity_Doubling(capacity) == IF capacity # 0 THEN capacity * 2 ELSE 128

\* line 77: the capacity after a growth
NewCapacity(capacity) == IF capacity # 0 THEN capacity + 128 ELSE 128

\* a growth that hands out a new block without the records of the old one
realloc_Fresh(array, new_capacity) ==
    [i \in 1..Len(array) |-> [thermal_telemetry_timestamp |-> 0,
                              sun_sensors_telemetry_timestamp |-> 0]]

\* lines 78 and 102: realloc(array, new_capacity * sizeof *array) when it
\* succeeds: the block it returns holds the records of the old one
realloc(array, new_capacity) == array

\* lines 40-46: fopen; a failure ends the run with status 1
MainOpen ==
    /\ pc = "start"
    /\ \/ /\ file_state' = "open"
          /\ pc' = "read"
          /\ UNCHANGED exit_status
       \/ /\ Exit(1)
          /\ UNCHANGED file_state
    /\ UNCHANGED <<stream, header, sent, fclose_count, thermal_telemetry_array,
                   thermal_length, thermal_capacity, thermal_mem,
                   sun_sensor_telemetry_array, sun_sensor_length,
                   sun_sensor_capacity, sun_mem, growths, thermal_csv, sun_csv, hist>>
    /\ UNCHANGED readVars

\* lines 64 and 117: read_state = read_data_frame(file, header, &frame), then
\* the test of the while
MainRead ==
    /\ pc = "read"
    /\ CallRead
    /\ pc' = IF LoopCondition(read_state') THEN "thermal" ELSE "after_loop"
    /\ UNCHANGED <<stream, header, sent>>
    /\ UNCHANGED mainVars

\* lines 70-90 without a failed realloc: calibrate, grow when full, append
MainThermalAppend ==
    /\ pc = "thermal"
    /\ IF thermal_length = thermal_capacity
       THEN /\ thermal_capacity' = NewCapacity(thermal_capacity)
            /\ thermal_mem' = "allocated"
            /\ growths' = [growths EXCEPT !.thermal = @ + 1]
       ELSE UNCHANGED <<thermal_capacity, thermal_mem, growths>>
    /\ thermal_telemetry_array' =
           Append(IF thermal_length = thermal_capacity
                  THEN realloc(thermal_telemetry_array, NewCapacity(thermal_capacity))
                  ELSE thermal_telemetry_array,
                  thermal_to_calibrated(frame, LoadU32(frame["rtc_s"])))
    /\ thermal_length' = thermal_length + 1
    /\ pc' = "sun"
    /\ UNCHANGED <<stream, header, sent, file_state, fclose_count,
                   sun_sensor_telemetry_array, sun_sensor_length,
                   sun_sensor_capacity, sun_mem, thermal_csv, sun_csv,
                   exit_status, hist>>
    /\ UNCHANGED readVars

\* lines 79-86 and 103-110: realloc returned NULL
MainAllocFail ==
    /\ \/ pc = "thermal" /\ thermal_length = thermal_capacity
       \/ pc = "sun" /\ sun_sensor_length = sun_sensor_capacity
    /\ thermal_mem' = Free(thermal_mem)
    /\ sun_mem' = Free(sun_mem)
    /\ Fclose
    /\ Exit(1)
    /\ UNCHANGED <<stream, header, sent, thermal_telemetry_array, thermal_length,
                   thermal_capacity, sun_sensor_telemetry_array,
                   sun_sensor_length, sun_sensor_capacity, growths,
                   thermal_csv, sun_csv, hist>>
    /\ UNCHANGED readVars

\* lines 94-114 without a failed realloc
MainSunAppend ==
    /\ pc = "sun"
    /\ IF sun_sensor_length = sun_sensor_capacity
       THEN /\ sun_sensor_capacity' = NewCapacity(sun_sensor_capacity)
            /\ sun_mem' = "allocated"
            /\ growths' = [growths EXCEPT !.sun = @ + 1]
       ELSE UNCHANGED <<sun_sensor_capacity, sun_mem, growths>>
    /\ sun_sensor_telemetry_array' =
           Append(IF sun_sensor_length = sun_sensor_capacity
                  THEN realloc(sun_sensor_telemetry_array, NewCapacity(sun_sensor_capacity))
                  ELSE sun_sensor_telemetry_array,
                  sun_sensors_to_calibrated(frame, LoadU32(frame["rtc_s"])))
    /\ sun_sensor_length' = sun_sensor_length + 1
    /\ pc' = "read"
    /\ UNCHANGED <<stream, header, sent, file_state, fclose_count,
                   thermal_telemetry_array, thermal_length, thermal_capacity,
                   thermal_mem, thermal_csv, sun_csv, exit_status, hist>>
    /\ UNCHANGED readVars

\* a READ_FAIL exit that leaves the file open
MainFailExit_NoClose ==
    /\ pc = "after_loop"
    /\ read_state = "READ_FAIL"
    /\ thermal_mem' = Free(thermal_mem)
    /\ sun_mem' = Free(sun_mem)
    /\ Exit(1)
    /\ UNCHANGED <<stream, header, sent, file_state, fclose_count,
                   thermal_telemetry_array, thermal_length,
                   thermal_capacity, sun_sensor_telemetry_array,
                   sun_sensor_length, sun_sensor_capacity, growths,
                   thermal_csv, sun_csv, hist>>
    /\ UNCHANGED readVars

\* lines 120-127: READ_FAIL ends the run
MainFailExit ==
    /\ pc = "after_loop"
    /\ read_state = "READ_FAIL"
    /\ thermal_mem' = Free(thermal_mem)
    /\ sun_mem' = Free(sun_mem)
    /\ Fclose
    /\ Exit(1)
    /\ UNCHANGED <<stream, header, sent, thermal_telemetry_array, thermal_length,
                   thermal_capacity, sun_sensor_telemetry_array,
                   sun_sensor_length, sun_sensor_capacity, growths,
                   thermal_csv, sun_csv, hist>>
    /\ UNCHANGED readVars

\* line 129
MainClose ==
    /\ pc = "after_loop"
    /\ read_state # "READ_FAIL"
    /\ Fclose
    /\ pc' = "check"
    /\ UNCHANGED <<stream, header, sent, thermal_telemetry_array, thermal_length,
                   thermal_capacity, thermal_mem, sun_sensor_telemetry_array,
                   sun_sensor_length, sun_sensor_capacity, sun_mem, growths,
                   thermal_csv, sun_csv, exit_status, hist>>
    /\ UNCHANGED readVars

\* lines 131-137: no frames in the file
MainNoFrames ==
    /\ pc = "check"
    /\ thermal_length = 0 \/ sun_sensor_length = 0
    /\ thermal_mem' = Free(thermal_mem)
    /\ sun_mem' = Free(sun_mem)
    /\ Exit(1)
    /\ UNCHANGED <<stream, header, sent, file_state, fclose_count,
                   thermal_telemetry_array, thermal_length, thermal_capacity,
                   sun_sensor_telemetry_array, sun_sensor_length,
                   sun_sensor_capacity, growths, thermal_csv, sun_csv, hist>>
    /\ UNCHANGED readVars

\* a processing that exports as many elements as were collected, the ones
\* past the compacted length with them
ProcessData_ExportsAll(array, length, kind) ==
    { [array |-> d.array, length |-> d.ret, csv |-> csv,
       hist |-> [unsorted |-> array, sorted |-> sorted, n |-> length]] :
      <<sorted, d, csv>> \in
          UNION { UNION { { <<srt, dd, c>> :
                            c \in write_array_to_csv(dd.array, length, kind,
                                                     CSV_DECIMAL_PRECISION) } :
                          dd \in {array_duplicate_removal(srt, length, kind)} } :
                  srt \in qsort(array, length, kind) } }

\* process_thermal_data / process_sun_sensors_data on (array, *length): qsort,
\* array_duplicate_removal, write_array_to_csv.  The result, 1 in every case,
\* is not kept.  Gives the array, the length and the file left behind, and
\* what was sorted and compacted
ProcessData(array, length, kind) ==
    { [array |-> d.array, length |-> d.ret, csv |-> csv,
       hist |-> [unsorted |-> array, sorted |-> sorted, n |-> length]] :
      <<sorted, d, csv>> \in
          UNION { UNION { { <<srt, dd, c>> :
                            c \in write_array_to_csv(dd.array, dd.ret, kind,
                                                     CSV_DECIMAL_PRECISION) } :
                          dd \in {array_duplicate_removal(srt, length, kind)} } :
                  srt \in qsort(array, length, kind) } }

\* lines 131, 142-146: process_thermal_data(thermal_telemetry_array, &thermal_length)
MainProcessThermal ==
    /\ pc = "check"
    /\ ~(thermal_length = 0 \/ sun_sensor_length = 0)
    /\ \E r \in ProcessData(thermal_telemetry_array, thermal_length, "thermal") :
          /\ thermal_telemetry_array' = r.array
          /\ thermal_length' = r.length
          /\ thermal_csv' = r.csv
          /\ hist' = [hist EXCEPT !.thermal = r.hist]
    /\ pc' = "process_sun"
    /\ UNCHANGED <<stream, header, sent, file_state, fclose_count,
                   thermal_capacity, thermal_mem, sun_sensor_telemetry_array,
                   sun_sensor_length, sun_sensor_capacity, sun_mem, growths,
                   sun_csv, exit_status>>
    /\ UNCHANGED readVars

\* lines 147-151: process_sun_sensors_data(sun_sensor_telemetry_array, &sun_sensor_length)
MainProcessSun ==
    /\ pc = "process_sun"
    /\ \E r \in ProcessData(sun_sensor_telemetry_array, sun_sensor_length, "sun") :
          /\ sun_sensor_telemetry_array' = r.array
          /\ sun_sensor_length' = r.length
          /\ sun_csv' = r.csv
          /\ hist' = [hist EXCEPT !.sun = r.hist]
    /\ pc' = "cleanup"
    /\ UNCHANGED <<stream, header, sent, file_state, fclose_count,
                   thermal_telemetry_array, thermal_length, thermal_capacity,
                   thermal_mem, sun_sensor_capacity, sun_mem, growths,
                   thermal_csv, exit_status>>
    /\ UNCHANGED readVars

\* an end of main that reports a failed export in the exit status
MainCleanup_StatusFromCsv ==
    /\ pc = "cleanup"
    /\ thermal_mem' = Free(thermal_mem)
    /\ sun_mem' = Free(sun_mem)
    /\ Exit(IF thermal_csv.status = 1 /\ sun_csv.status = 1 THEN 0 ELSE 1)
    /\ UNCHANGED <<stream, header, sent, file_state, fclose_count,
                   thermal_telemetry_array, thermal_length, thermal_capacity,
                   sun_sensor_telemetry_array, sun_sensor_length,
                   sun_sensor_capacity, growths, thermal_csv, sun_csv, hist>>
    /\ UNCHANGED readVars

\* lines 153-158
MainCleanup ==
    /\ pc = "cleanup"
    /\ thermal_mem' = Free(thermal_mem)
    /\ sun_mem' = Free(sun_mem)
    /\ Exit(0)
    /\ UNCHANGED <<stream, header, sent, file_state, fclose_count,
                   thermal_telemetry_array, thermal_length, thermal_capacity,
                   sun_sensor_telemetry_array, sun_sensor_length,
                   sun_sensor_capacity, growths, thermal_csv, sun_csv, hist>>
    /\ UNCHANGED readVars

Next ==
    \/ MainOpen
    \/ MainRead
    \/ MainThermalAppend
    \/ MainSunAppend
    \/ MainAllocFail
    \/ MainFailExit
    \/ MainClose
    \/ MainNoFrames
    \/ MainProcessThermal
    \/ MainProcessSun
    \/ MainCleanup

Spec == Init /\ [][Next]_vars

----------------------------------------------------------------------------
(* SpecCollect: the read loop of main on a long stream *)

\* the i-th frame of the long stream: the timestamps in turn, the raw values
\* alternating
CollectItem(i) ==
    [ts |-> IF i % 3 = 0 THEN 100 ELSE IF i % 3 = 1 THEN 50 ELSE 256,
     v |-> 1 + (i % 2)]

\* a marker and a well-formed frame, for each timestamp and raw values
MarkedFrame == [it \in Items |-> MainHeader \o GoodFrame(it.ts, it.v)]

\* the part of the file that the call number n reads: the n-th frame with its
\* marker, and nothing once the frames are over
CollectChunk(n) ==
    IF n <= MaxCollected THEN MarkedFrame[CollectItem(n)] ELSE <<>>

\* `stream` holds the part of the file that the call at hand reads
InitCollect ==
    /\ header = MainHeader
    /\ stream = <<>>
    /\ sent = [i \in 1..MaxCollected |-> CollectItem(i)]
    /\ frame \in InitFrames
    /\ pc = "start"
    /\ ReadVarsInit
    /\ MainVarsInit

\* lines 64 and 117, the file being MaxCollected frames one after the other:
\* the call reads the next of them, or meets the end of the file
CollectRead ==
    /\ pc = "read"
    /\ stream' = CollectChunk(n_calls + 1)
    /\ \E r \in {read_data_frame(stream', 0, header, frame)} :
          /\ pos' = r.pos
          /\ frame' = r.out
          /\ read_state' = r.state
          /\ diag' = r.diag
          /\ n_calls' = n_calls + 1
          /\ call_pos' = 0
          /\ call_frame' = frame
          /\ sync_pos' = r.sync
          /\ fail' = r.fail
    /\ pc' = IF LoopCondition(read_state') THEN "thermal" ELSE "after_loop"
    /\ UNCHANGED <<header, sent>>
    /\ UNCHANGED mainVars

\* lines 40-118 of main: the open, the reads, the appends and their failures
NextCollect ==
    \/ MainOpen
    \/ CollectRead
    \/ MainThermalAppend
    \/ MainSunAppend
    \/ MainAllocFail

SpecCollect == InitCollect /\ [][NextCollect]_vars

----------------------------------------------------------------------------
(* SpecCompact: qsort then array_duplicate_removal on any series *)

CompactTs == {1, 3, 5}

\* element i of a series carries its place in the input in its values, so two
\* elements of a series are never the same record
ThermalSeries(ts) ==
    [i \in 1..Len(ts) |->
        [thermal_telemetry_timestamp |-> ts[i],
         CPU_C |-> TEMP_C_PHYSICAL_VALUE(i),
         mirror_cell_C |-> TEMP_C_PHYSICAL_VALUE(-i)]]

SunSeries(ts) ==
    [i \in 1..Len(ts) |->
        [sun_sensors_telemetry_timestamp |-> ts[i],
         sun_vector_x |-> SUN_SENSORS_PHYSICAL_VALUE(i),
         sun_vector_y |-> SUN_SENSORS_PHYSICAL_VALUE(-i),
         sun_vector_z |-> SUN_SENSORS_PHYSICAL_VALUE(0)]]

TsSeqs(n) == UNION { [1..m -> CompactTs] : m \in 0..n }

InitCompact ==
    /\ header = MainHeader
    /\ stream = <<>>
    /\ sent = <<>>
    /\ frame = FrameFilledWith(0)
    /\ ReadVarsInit
    /\ file_state = "unopened"
    /\ fclose_count = 0
    /\ thermal_capacity = 0
    /\ thermal_mem = "NULL"
    /\ sun_sensor_capacity = 0
    /\ sun_mem = "NULL"
    /\ growths = [thermal |-> 0, sun |-> 0]
    /\ thermal_csv = NoCsv
    /\ sun_csv = NoCsv
    /\ exit_status = -1
    /\ hist = [thermal |-> NoHist, sun |-> NoHist]
    /\ \E ts \in TsSeqs(MaxN) :
          \/ /\ pc = "sort_thermal"
             /\ thermal_telemetry_array = ThermalSeries(ts)
             /\ thermal_length = Len(ts)
             /\ sun_sensor_telemetry_array = <<>>
             /\ sun_sensor_length = 0
          \/ /\ pc = "sort_sun"
             /\ sun_sensor_telemetry_array = SunSeries(ts)
             /\ sun_sensor_length = Len(ts)
             /\ thermal_telemetry_array = <<>>
             /\ thermal_length = 0

compactFrame == <<stream, header, sent, file_state, fclose_count, thermal_capacity,
                  thermal_mem, sun_sensor_capacity, sun_mem, growths,
                  thermal_csv, sun_csv, exit_status>>

\* main.c line 166: qsort(thermal_telemetry_array, *thermal_length, ...)
CompactSortThermal ==
    /\ pc = "sort_thermal"
    /\ thermal_telemetry_array' \in
           qsort(thermal_telemetry_array, thermal_length, "thermal")
    /\ hist' = [hist EXCEPT !.thermal.unsorted = thermal_telemetry_array]
    /\ pc' = "dedup_thermal"
    /\ UNCHANGED <<thermal_length, sun_sensor_telemetry_array, sun_sensor_length>>
    /\ UNCHANGED compactFrame
    /\ UNCHANGED readVars

\* main.c line 169: *thermal_length = array_duplicate_removal(...)
CompactDedupThermal ==
    /\ pc = "dedup_thermal"
    /\ \E d \in {array_duplicate_removal(thermal_telemetry_array, thermal_length,
                                         "thermal")} :
          /\ thermal_telemetry_array' = d.array
          /\ thermal_length' = d.ret
    /\ hist' = [hist EXCEPT !.thermal.sorted = thermal_telemetry_array,
                            !.thermal.n = thermal_length]
    /\ pc' = "done_thermal"
    /\ UNCHANGED <<sun_sensor_telemetry_array, sun_sensor_length>>
    /\ UNCHANGED compactFrame
    /\ UNCHANGED readVars

\* main.c lines 198-203: qsort(sun_sensor_telemetry_array, *sun_sensor_length, ...)
CompactSortSun ==
    /\ pc = "sort_sun"
    /\ sun_sensor_telemetry_array' \in
           qsort(sun_sensor_telemetry_array, sun_sensor_length, "sun")
    /\ hist' = [hist EXCEPT !.sun.unsorted = sun_sensor_telemetry_array]
    /\ pc' = "dedup_sun"
    /\ UNCHANGED <<sun_sensor_length, thermal_telemetry_array, thermal_length>>
    /\ UNCHANGED compactFrame
    /\ UNCHANGED readVars

\* main.c lines 206-212: *sun_sensor_length = array_duplicate_removal(...)
CompactDedupSun ==
    /\ pc = "dedup_sun"
    /\ \E d \in {array_duplicate_removal(sun_sensor_telemetry_array,
                                         sun_sensor_length, "sun")} :
          /\ sun_sensor_telemetry_array' = d.array
          /\ sun_sensor_length' = d.ret
    /\ hist' = [hist EXCEPT !.sun.sorted = sun_sensor_telemetry_array,
                            !.sun.n = sun_sensor_length]
    /\ pc' = "done_sun"
    /\ UNCHANGED <<thermal_telemetry_array, thermal_length>>
    /\ UNCHANGED compactFrame
    /\ UNCHANGED readVars

NextCompact ==
    \/ CompactSortThermal
    \/ CompactDedupThermal
    \/ CompactSortSun
    \/ CompactDedupSun

SpecCompact == InitCompact /\ [][NextCompact]_vars

----------------------------------------------------------------------------
(* SpecSwap: byte16_swap and byte32_swap applied once and again *)

\* every uint16_t
Words16 == 0..(Pow2_16 - 1)

\* uint32_t values that the checker's integers hold together with their swap:
\* the two outer bytes below 2^7, the two inner bytes any of these
OuterBytes == {0, 1, 85, 127}
InnerBytes == {0, 1, 128, 255}
Words32 ==
    { b3 * Pow2_24 + b2 * Pow2_16 + b1 * Pow2_8 + b0 :
      b3 \in OuterBytes, b2 \in InnerBytes, b1 \in InnerBytes, b0 \in OuterBytes }

\* the swap of the given width
ByteSwap(width, value_to_swap) ==
    IF width = 16 THEN byte16_swap(value_to_swap) ELSE byte32_swap(value_to_swap)

\* `sent` holds the argument, `hist` the two results
InitSwap ==
    /\ header = MainHeader
    /\ stream = <<>>
    /\ frame = FrameFilledWith(0)
    /\ ReadVarsInit
    /\ MainVarsInitBut
    /\ pc = "swap"
    /\ \/ \E x \in Words16 : sent = [width |-> 16, value |-> x]
       \/ \E x \in Words32 : sent = [width |-> 32, value |-> x]
    /\ hist = [once |-> -1, twice |-> -1]

\* y = byteNN_swap(x)
SwapOnce ==
    /\ pc = "swap"
    /\ hist' = [hist EXCEPT !.once = ByteSwap(sent.width, sent.value)]
    /\ pc' = "swapped"
    /\ UNCHANGED <<stream, header, sent>>
    /\ UNCHANGED mainVarsBut
    /\ UNCHANGED readVars

\* z = byteNN_swap(y)
SwapAgain ==
    /\ pc = "swapped"
    /\ hist' = [hist EXCEPT !.twice = ByteSwap(sent.width, hist.once)]
    /\ pc' = "swapped_twice"
    /\ UNCHANGED <<stream, header, sent>>
    /\ UNCHANGED mainVarsBut
    /\ UNCHANGED readVars

NextSwap ==
    \/ SwapOnce
    \/ SwapAgain

SpecSwap == InitSwap /\ [][NextSwap]_vars

----------------------------------------------------------------------------
(* SpecCalib: the two calibrations of one decoded frame *)

\* signed 16-bit values on the wire: both ends of the range, zero, both signs
Raw16 == {0, 1, 2500, 16384, 32767, -1, -300, -8192, -16384, -32768}

\* rtc_s values whose stored field the checker's integers hold
CalibTs == {50, 256, 16909060}

\* a decoded frame with the given big-endian values in the fields that the
\* calibrations use
CalibFrame(ts, cpu, mirror, x, y, z) ==
    [FrameFilledWith(0) EXCEPT
        !["rtc_s"] = BE32(ts),
        !["CPU_C"] = BE16(ToUint16(cpu)),
        !["mirror_cell_C"] = BE16(ToUint16(mirror)),
        !["sunvectorX"] = BE16(ToUint16(x)),
        !["sunvectorY"] = BE16(ToUint16(y)),
        !["sunvectorZ"] = BE16(ToUint16(z))]

InitCalib ==
    /\ header = MainHeader
    /\ stream = <<>>
    /\ sent = <<>>
    /\ \E ts \in CalibTs, a \in Raw16, b \in Raw16, c \in Raw16 :
          frame = CalibFrame(ts, a, b, c, a, b)
    /\ ReadVarsInit
    /\ MainVarsInit
    /\ pc = "calib_thermal"

\* main.c line 71: thermal_telemetry = thermal_to_calibrated(&frame.thermal,
\* frame.platform.rtc_s)
CalibThermal ==
    /\ pc = "calib_thermal"
    /\ thermal_telemetry_array' =
           <<thermal_to_calibrated(frame, LoadU32(frame["rtc_s"]))>>
    /\ pc' = "calib_sun"
    /\ UNCHANGED <<thermal_length, sun_sensor_telemetry_array, sun_sensor_length, hist>>
    /\ UNCHANGED compactFrame
    /\ UNCHANGED readVars

\* main.c line 95: sun_sensor_telemetry = sun_sensors_to_calibrated(&frame.aocs,
\* frame.platform.rtc_s)
CalibSun ==
    /\ pc = "calib_sun"
    /\ sun_sensor_telemetry_array' =
           <<sun_sensors_to_calibrated(frame, LoadU32(frame["rtc_s"]))>>
    /\ pc' = "calibrated"
    /\ UNCHANGED <<thermal_length, thermal_telemetry_array, sun_sensor_length, hist>>
    /\ UNCHANGED compactFrame
    /\ UNCHANGED readVars

NextCalib ==
    \/ CalibThermal
    \/ CalibSun

SpecCalib == InitCalib /\ [][NextCalib]_vars

----------------------------------------------------------------------------
(* What the properties say about a stream, stated without the reader *)

\* the marker hdr ends at position e of s (its bytes are s[e-2], s[e-1], s[e])
MarkerEndsAt(s, hdr, e) ==
    /\ e >= 3 /\ e <= Len(s)
    /\ s[e - 2] = hdr[1] /\ s[e - 1] = hdr[2] /\ s[e] = hdr[3]

\* the position right after the first occurrence of hdr that lies wholly at or
\* after position p, -1 if there is none
FirstMarkerEnd(s, p, hdr) ==
    LET ends == { e \in (p + 3)..Len(s) : MarkerEndsAt(s, hdr, e) }
    IN  IF ends = {} THEN -1 ELSE CHOOSE e \in ends : \A x \in ends : e <= x

\* the identifier offsets and values the frame layout states
StatedIdOffsets == <<0, 18, 24, 31, 49, 55, 101>>
StatedIds == <<1, 257, 513, 769, 1025, 1281, 1537>>

\* the two bytes at the stated offset of section i after position m are the
\* big-endian encoding of the stated identifier
IdBytesRight(s, m, i) ==
    /\ Len(s) >= m + StatedIdOffsets[i] + 2
    /\ s[m + StatedIdOffsets[i] + 1] = StatedIds[i] \div 256
    /\ s[m + StatedIdOffsets[i] + 2] = StatedIds[i] % 256

\* the first field of the layout that does not fit in avail bytes
FirstShortField(avail) ==
    CHOOSE k \in 1..NFields :
        /\ FieldOffset(k) + Fields[k].width > avail
        /\ \A j \in 1..(k - 1) : FieldOffset(j) + Fields[j].width <= avail

\* the identifier fields that lie wholly within avail bytes after position m
\* and do not hold their expected value on the wire
WrongIdFields(s, m, avail) ==
    { k \in 1..NFields :
        /\ Fields[k].id # -1
        /\ FieldOffset(k) + 2 <= avail
        /\ <<s[m + FieldOffset(k) + 1], s[m + FieldOffset(k) + 2]>> # BE16(Fields[k].id) }

----------------------------------------------------------------------------
(* Properties of read_data_frame, checked under SpecRead *)

\* C1: the scan of a call stops right after the first occurrence of the marker
\* among the bytes read in that call (overlapping candidates included) and
\* consumes nothing after it; without an occurrence it finds none.
C1_ScanStopsAfterFirstMarker ==
    n_calls > 0 => sync_pos = FirstMarkerEnd(stream, call_pos, header)

\* the stream 00 FF FF FF F0 with marker FF FF F0: the scan ends at position 5
C1_Witness ==
    /\ n_calls = 1
    /\ header = <<255, 255, 240>>
    /\ stream = <<0, 255, 255, 255, 240>>
    /\ sync_pos = 5

\* C2: a call returns one of the three results; READ_OK exactly when a marker
\* is found, at least 110 bytes follow it and the seven identifiers at the
\* stated offsets hold the stated values big-endian; READ_OK consumes exactly
\* the 110 bytes after the marker.
C2_OkIffWellFormed ==
    n_calls > 0 =>
        LET m == FirstMarkerEnd(stream, call_pos, header)
        IN  /\ read_state \in {"READ_OK", "READ_EOF", "READ_FAIL"}
            /\ read_state = "READ_OK" <=>
                   /\ m # -1
                   /\ Len(stream) - m >= 110
                   /\ \A i \in 1..7 : IdBytesRight(stream, m, i)
            /\ read_state = "READ_OK" => pos = m + 110

\* a second call that starts right after a frame and reads the next one
C2_Witness ==
    /\ n_calls = 2
    /\ read_state = "READ_OK"
    /\ call_pos = 3 + 110
    /\ pos = call_pos + 3 + 110

\* C4: a wrong identifier in a section, the earlier sections being right,
\* gives READ_FAIL with the position right after those two bytes.
C4_WrongIdFailsInPlace ==
    n_calls > 0 =>
        LET m == FirstMarkerEnd(stream, call_pos, header)
        IN  \A i \in 1..7 :
                ( /\ m # -1
                  /\ Len(stream) >= m + StatedIdOffsets[i] + 2
                  /\ ~IdBytesRight(stream, m, i)
                  /\ \A j \in 1..(i - 1) : IdBytesRight(stream, m, j) )
                => /\ read_state = "READ_FAIL"
                   /\ pos = m + StatedIdOffsets[i] + 2

\* a frame whose Thermal identifier alone is wrong, every other byte in place
C4_Witness ==
    /\ n_calls > 0
    /\ sync_pos # -1
    /\ Len(stream) >= sync_pos + 110
    /\ \A i \in 1..7 : i # 5 => IdBytesRight(stream, sync_pos, i)
    /\ ~IdBytesRight(stream, sync_pos, 5)
    /\ read_state = "READ_FAIL"
    /\ pos = sync_pos + 51

\* C5 as stated: a stream that ends less than 110 bytes after the marker makes
\* the call fail by a short read at the first field that does not fit.
C5_FailsAtFirstShortField ==
    n_calls > 0 =>
        LET m == FirstMarkerEnd(stream, call_pos, header)
        IN  (m # -1 /\ Len(stream) - m < 110) =>
                /\ read_state = "READ_FAIL"
                /\ fail = [field |-> FirstShortField(Len(stream) - m), kind |-> "short"]

\* C5 amended: such a call returns READ_FAIL, at the first field that does not
\* fit, unless an identifier read in full before it is wrong: then it fails at
\* the first such identifier.
C5_FailsAtShortFieldOrEarlierId ==
    n_calls > 0 =>
        LET m == FirstMarkerEnd(stream, call_pos, header)
            avail == Len(stream) - m
        IN  (m # -1 /\ avail < 110) =>
                LET wrong == WrongIdFields(stream, m, avail)
                IN  /\ read_state = "READ_FAIL"
                    /\ wrong = {} =>
                         fail = [field |-> FirstShortField(avail), kind |-> "short"]
                    /\ wrong # {} =>
                         fail = [field |-> CHOOSE k \in wrong : \A x \in wrong : k <= x,
                                 kind |-> "mismatch"]

\* the marker is the last three bytes of the stream
C5_Witness ==
    /\ n_calls > 0
    /\ sync_pos = Len(stream)
    /\ read_state = "READ_FAIL"
    /\ fail = [field |-> 1, kind |-> "short"]

\* C6: a call that finds no marker in the rest of the stream returns READ_EOF
\* with every byte consumed, and once a call has returned READ_EOF every later
\* call returns READ_EOF.
C6_EofIsFinal ==
    /\ [](n_calls > 0 /\ FirstMarkerEnd(stream, call_pos, header) = -1
            => read_state = "READ_EOF" /\ pos = Len(stream))
    /\ [][read_state = "READ_EOF" => read_state' = "READ_EOF"]_vars

\* a call after the call that ran out of a stream holding no marker
C6_Witness ==
    /\ n_calls >= 2
    /\ Len(stream) > 0
    /\ FirstMarkerEnd(stream, 0, header) = -1
    /\ call_pos = Len(stream)
    /\ read_state = "READ_EOF"

----------------------------------------------------------------------------
(* The series, stated without the code *)

\* the timestamp of a calibrated record
Ts(kind, rec) ==
    IF kind = "thermal" THEN rec.thermal_telemetry_timestamp
    ELSE rec.sun_sensors_telemetry_timestamp

\* the timestamps of the first n records of a series, in order
SeriesTs(kind, array, n) == [i \in 1..n |-> Ts(kind, array[i])]

\* the members of a set of numbers in ascending order
RECURSIVE AscendingSeq(_)
AscendingSeq(S) ==
    IF S = {} THEN <<>>
    ELSE LET m == CHOOSE x \in S : \A y \in S : x <= y
         IN  <<m>> \o AscendingSeq(S \ {m})

Range(f) == { f[i] : i \in DOMAIN f }

\* the big-endian rtc_s values of the frames put in the stream
SentTs == { sent[i].ts : i \in 1..Len(sent) }

\* the places, among the first n of a sorted series, where a run of
\* comparator-equal records starts
RunStarts(kind, sorted, n) ==
    { i \in 1..n : i = 1 \/ Ts(kind, sorted[i]) # Ts(kind, sorted[i - 1]) }

\* the k-th smallest member of a set of numbers
Kth(S, k) == CHOOSE i \in S : Cardinality({ j \in S : j <= i }) = k

\* the first record of each run, in order
FirstOfRuns(kind, sorted, n) ==
    [k \in 1..Cardinality(RunStarts(kind, sorted, n)) |->
        sorted[Kth(RunStarts(kind, sorted, n), k)]]

----------------------------------------------------------------------------
(* C3 *)

\* C3: whenever read_data_frame returns READ_FAIL or READ_EOF, the caller's
\* frame holds exactly the value it had before the call.  The code reads each
\* field straight into the caller's frame, so the fields read before the
\* failure stay written: this statement is violated.
C3_OutUnchangedOnFailure ==
    (n_calls > 0 /\ read_state \in {"READ_FAIL", "READ_EOF"}) => frame = call_frame

----------------------------------------------------------------------------
(* C7 *)

\* C7: a decode failure is fatal for the run.  While the last read returned
\* READ_FAIL main is either just out of the loop or has exited, nothing has
\* been sorted, compacted or exported, and an exit carries a nonzero status;
\* the only step main takes from there makes no read_data_frame call and
\* exits with a nonzero status.  After READ_EOF the loop ends normally: main
\* closes the file and goes on to the check of the series and the processing.
C7_FailIsFatal ==
    /\ [](read_state = "READ_FAIL" =>
            /\ pc \in {"after_loop", "exit"}
            /\ hist = [thermal |-> NoHist, sun |-> NoHist]
            /\ thermal_csv = NoCsv
            /\ sun_csv = NoCsv
            /\ (pc = "exit" => exit_status # 0))
    /\ [][read_state = "READ_FAIL" =>
            /\ n_calls' = n_calls
            /\ pc' = "exit"
            /\ exit_status' # 0
            /\ thermal_csv' = NoCsv
            /\ sun_csv' = NoCsv]_vars
    /\ [][(read_state = "READ_EOF" /\ pc = "after_loop") =>
            /\ pc' = "check"
            /\ exit_status' = exit_status
            /\ n_calls' = n_calls]_vars
    /\ [][(read_state = "READ_EOF" /\ pc = "check"
           /\ thermal_length > 0 /\ sun_sensor_length > 0) =>
            /\ pc' = "process_sun"
            /\ hist'.thermal.n = thermal_length]_vars

\* frames were decoded and kept, then a frame failed: the run has ended with
\* status 1 after that read, with no file
C7_Witness ==
    /\ pc = "exit"
    /\ read_state = "READ_FAIL"
    /\ n_calls = 3
    /\ thermal_length = 2
    /\ sun_sensor_length = 2
    /\ exit_status = 1
    /\ thermal_csv = NoCsv
    /\ sun_csv = NoCsv

----------------------------------------------------------------------------
(* C8 *)

\* C8: once main has processed a series of a stream of valid frames, the
\* series (the first *length records) is the strictly ascending list of the
\* distinct big-endian rtc_s values of the frames, one record each, and a file
\* written in full has one row per record with these timestamps in that order.
C8_SeriesIsAscendingDistinctTimestamps ==
    /\ hist.thermal.n >= 0 =>
          /\ SeriesTs("thermal", thermal_telemetry_array, thermal_length)
                 = AscendingSeq(SentTs)
          /\ thermal_csv.status = 1 =>
                 [j \in 1..Len(thermal_csv.rows) |-> thermal_csv.rows[j][1]]
                     = AscendingSeq(SentTs)
    /\ hist.sun.n >= 0 =>
          /\ SeriesTs("sun", sun_sensor_telemetry_array, sun_sensor_length)
                 = AscendingSeq(SentTs)
          /\ sun_csv.status = 1 =>
                 [j \in 1..Len(sun_csv.rows) |-> sun_csv.rows[j][1]]
                     = AscendingSeq(SentTs)

\* frames with rtc_s 100, 50, 100: both files written, two rows, 50 then 100
C8_Witness ==
    /\ pc = "exit"
    /\ exit_status = 0
    /\ [i \in 1..Len(sent) |-> sent[i].ts] = <<100, 50, 100>>
    /\ thermal_length = 2
    /\ thermal_csv.status = 1
    /\ [j \in 1..Len(thermal_csv.rows) |-> thermal_csv.rows[j][1]] = <<50, 100>>
    /\ sun_csv.status = 1
    /\ [j \in 1..Len(sun_csv.rows) |-> sun_csv.rows[j][1]] = <<50, 100>>

----------------------------------------------------------------------------
(* C9 *)

\* what C9 says of one series: input `unsorted` of n records, result `array`
\* with the returned length
CompactedRight(kind, unsorted, n, array, length) ==
    /\ length = Cardinality(Range(SeriesTs(kind, unsorted, n)))
    /\ \A i \in 1..(length - 1) : Ts(kind, array[i]) < Ts(kind, array[i + 1])
    /\ Range(SeriesTs(kind, array, length)) = Range(SeriesTs(kind, unsorted, n))

\* C9: qsort by the timestamp comparator followed by array_duplicate_removal,
\* on a series of n >= 1 records, returns the number of distinct timestamps of
\* the input, and the first newLength records have strictly ascending
\* timestamps whose set is the set of the input's timestamps.
C9_CompactionKeepsDistinctTimestamps ==
    /\ (pc = "done_thermal" /\ hist.thermal.n >= 1) =>
          CompactedRight("thermal", hist.thermal.unsorted, hist.thermal.n,
                         thermal_telemetry_array, thermal_length)
    /\ (pc = "done_sun" /\ hist.sun.n >= 1) =>
          CompactedRight("sun", hist.sun.unsorted, hist.sun.n,
                         sun_sensor_telemetry_array, sun_sensor_length)

\* timestamps 5,3,3,1,5 compacted to length 3 with timestamps 1,3,5
C9_Witness ==
    /\ pc = "done_thermal"
    /\ hist.thermal.n = 5
    /\ SeriesTs("thermal", hist.thermal.unsorted, 5) = <<5, 3, 3, 1, 5>>
    /\ thermal_length = 3
    /\ SeriesTs("thermal", thermal_telemetry_array, 3) = <<1, 3, 5>>

----------------------------------------------------------------------------
(* C10 *)

\* what C10 says of one series: `sorted` of n records given to
\* array_duplicate_removal, result `array` with the returned length
KeptFirstOfRuns(kind, sorted, n, array, length) ==
    /\ length = Cardinality(RunStarts(kind, sorted, n))
    /\ SubSeq(array, 1, length) = FirstOfRuns(kind, sorted, n)

\* C10: on a series sorted by the comparator, array_duplicate_removal leaves
\* at kept slot k the whole record that was the first of the k-th run of
\* records with equal timestamps, the kept records in their order in the
\* sorted series; the later records of a run are dropped though their other
\* fields differ.
C10_DedupKeepsFirstOfEachRun ==
    /\ pc = "done_thermal" =>
          KeptFirstOfRuns("thermal", hist.thermal.sorted, hist.thermal.n,
                          thermal_telemetry_array, thermal_length)
    /\ pc = "done_sun" =>
          KeptFirstOfRuns("sun", hist.sun.sorted, hist.sun.n,
                          sun_sensor_telemetry_array, sun_sensor_length)

\* a sorted series 1,3,3,5,5 whose runs of 3 and of 5 hold records with
\* different values, the later arrival first in the run of 3: the first of
\* each run is kept whole, moved down where a record before it was dropped
C10_Witness ==
    /\ pc = "done_sun"
    /\ hist.sun.n = 5
    /\ SeriesTs("sun", hist.sun.sorted, 5) = <<1, 3, 3, 5, 5>>
    /\ hist.sun.sorted[2].sun_vector_x.num > hist.sun.sorted[3].sun_vector_x.num
    /\ hist.sun.sorted[4] # hist.sun.sorted[5]
    /\ sun_sensor_length = 3
    /\ sun_sensor_telemetry_array[2] = hist.sun.sorted[2]
    /\ sun_sensor_telemetry_array[3] = hist.sun.sorted[4]

----------------------------------------------------------------------------
(* C11 *)

\* the bytes of a value of the given width, most significant first
BytesOf(width, v) == IF width = 16 THEN BE16(v) ELSE BE32(v)

Reversed(b) == [i \in 1..Len(b) |-> b[Len(b) + 1 - i]]

\* C11: byte16_swap and byte32_swap give, for every argument, a value of the
\* same width whose bytes are the argument's in reversed order, and the swap
\* of that value is the argument again.
C11_SwapsReverseBytesAndAreInvolutive ==
    /\ pc \in {"swapped", "swapped_twice"} =>
          /\ hist.once \in Nat
          /\ BytesOf(sent.width, hist.once) = Reversed(BytesOf(sent.width, sent.value))
          /\ \A i \in 1..Len(BytesOf(sent.width, hist.once)) :
                 BytesOf(sent.width, hist.once)[i] \in 0..255
    /\ pc = "swapped_twice" => hist.twice = sent.value

\* a 32-bit value with four different bytes, 0x0180FF7F, swapped to
\* 0x7FFF8001 and back
C11_Witness ==
    /\ pc = "swapped_twice"
    /\ sent = [width |-> 32, value |-> 1 * Pow2_24 + 128 * Pow2_16 + 255 * Pow2_8 + 127]
    /\ hist.once = 127 * Pow2_24 + 255 * Pow2_16 + 128 * Pow2_8 + 1
    /\ hist.twice = sent.value

----------------------------------------------------------------------------
(* C12 *)

\* the bytes of field k of the frame that follows a marker ending at m
WireBytes(s, m, k) ==
    SubSeq(s, m + FieldOffset(k) + 1, m + FieldOffset(k) + Fields[k].width)

\* C12: on READ_OK every field of the caller's frame, the section identifiers
\* included, holds the bytes of that field as they are in the stream, in the
\* stream's order.
C12_FieldsHoldWireBytes ==
    (n_calls > 0 /\ read_state = "READ_OK") =>
        \A m \in {FirstMarkerEnd(stream, call_pos, header)} :
            \A k \in 1..NFields : frame[Fields[k].name] = WireBytes(stream, m, k)

\* a frame decoded over a frame filled with zeros: the identifiers are held
\* big-endian as read (0x0001 as 00 01, 0x0401 as 04 01), rtc_s 50 as
\* 00 00 00 32, CPU_C 2500 as 09 C4
C12_Witness ==
    /\ n_calls = 1
    /\ read_state = "READ_OK"
    /\ call_frame = FrameFilledWith(0)
    /\ frame["platform_telemetry_id"] = <<0, 1>>
    /\ frame["thermal_telemetry_id"] = <<4, 1>>
    /\ frame["rtc_s"] = <<0, 0, 0, 50>>
    /\ frame["CPU_C"] = <<9, 196>>

----------------------------------------------------------------------------
(* C13 *)

\* the signed 16-bit value that two wire bytes hold big-endian
SignedBE16(b) ==
    IF b[1] * 256 + b[2] >= 32768 THEN b[1] * 256 + b[2] - 65536
    ELSE b[1] * 256 + b[2]

\* the ratio q is the value v times num/den
IsScaled(q, v, num, den) == q.num * den = v * num * q.den

\* C13: thermal_to_calibrated gives CPU_C and mirror_cell_C equal to the signed
\* 16-bit big-endian value of the wire field times 0.01, and
\* sun_sensors_to_calibrated gives x, y, z equal to the signed 16-bit
\* big-endian value of the wire field divided by 16384; a negative wire value
\* gives a negative result.
C13_CalibrationScalesSignedBigEndian ==
    /\ pc \in {"calib_sun", "calibrated"} =>
          \A rec \in {thermal_telemetry_array[1]} :
              /\ IsScaled(rec.CPU_C, SignedBE16(frame["CPU_C"]), 1, 100)
              /\ IsScaled(rec.mirror_cell_C, SignedBE16(frame["mirror_cell_C"]), 1, 100)
              /\ rec.CPU_C.den > 0
              /\ rec.mirror_cell_C.den > 0
    /\ pc = "calibrated" =>
          \A rec \in {sun_sensor_telemetry_array[1]} :
              /\ IsScaled(rec.sun_vector_x, SignedBE16(frame["sunvectorX"]), 1, 16384)
              /\ IsScaled(rec.sun_vector_y, SignedBE16(frame["sunvectorY"]), 1, 16384)
              /\ IsScaled(rec.sun_vector_z, SignedBE16(frame["sunvectorZ"]), 1, 16384)
              /\ rec.sun_vector_x.den > 0
              /\ rec.sun_vector_y.den > 0
              /\ rec.sun_vector_z.den > 0

\* wire 09 C4 (2500) gives 25.00, wire 40 00 (16384) gives 1.0, wire FE D4
\* (-300) gives -3.00 as a temperature and -300/16384 as a sun vector part
C13_Witness ==
    /\ pc = "calibrated"
    /\ frame["CPU_C"] = <<9, 196>>
    /\ IsScaled(thermal_telemetry_array[1].CPU_C, 25, 1, 1)
    /\ frame["mirror_cell_C"] = <<254, 212>>
    /\ IsScaled(thermal_telemetry_array[1].mirror_cell_C, -3, 1, 1)
    /\ frame["sunvectorX"] = <<64, 0>>
    /\ IsScaled(sun_sensor_telemetry_array[1].sun_vector_x, 1, 1, 1)
    /\ frame["sunvectorZ"] = <<254, 212>>
    /\ IsScaled(sun_sensor_telemetry_array[1].sun_vector_z, -300, 1, 16384)
    /\ sun_sensor_telemetry_array[1].sun_vector_z.num < 0

----------------------------------------------------------------------------
(* C14 *)

\* the 32-bit value that four wire bytes hold big-endian
UnsignedBE32(b) == b[1] * Pow2_24 + b[2] * Pow2_16 + b[3] * Pow2_8 + b[4]

\* C14: while main collects, the Thermal record and the SunVector record made
\* from the i-th decoded frame carry the same timestamp, the big-endian value
\* of that frame's rtc_s bytes; the records made from the frame at hand carry
\* the big-endian value of the rtc_s bytes held in the frame.
C14_BothRecordsCarryFrameTimestamp ==
    pc \in {"read", "thermal", "sun", "after_loop", "check"} =>
        /\ \A i \in 1..thermal_length :
               Ts("thermal", thermal_telemetry_array[i]) = sent[i].ts
        /\ \A i \in 1..sun_sensor_length :
               /\ Ts("sun", sun_sensor_telemetry_array[i]) = sent[i].ts
               /\ Ts("sun", sun_sensor_telemetry_array[i])
                      = Ts("thermal", thermal_telemetry_array[i])
        /\ pc = "sun" =>
               Ts("thermal", thermal_telemetry_array[thermal_length])
                   = UnsignedBE32(frame["rtc_s"])
        /\ (pc = "read" /\ sun_sensor_length > 0) =>
               /\ Ts("sun", sun_sensor_telemetry_array[sun_sensor_length])
                      = UnsignedBE32(frame["rtc_s"])
               /\ Ts("thermal", thermal_telemetry_array[thermal_length])
                      = UnsignedBE32(frame["rtc_s"])

\* three frames collected, the last with rtc_s 00 00 01 00: both its records
\* carry 256
C14_Witness ==
    /\ pc = "read"
    /\ thermal_length = 3
    /\ sun_sensor_length = 3
    /\ frame["rtc_s"] = <<0, 0, 1, 0>>
    /\ thermal_telemetry_array[3].thermal_telemetry_timestamp = 256
    /\ sun_sensor_telemetry_array[3].sun_sensors_telemetry_timestamp = 256
    /\ thermal_telemetry_array[1].thermal_telemetry_timestamp = 100
    /\ sun_sensor_telemetry_array[1].sun_sensors_telemetry_timestamp = 100

----------------------------------------------------------------------------
(* C15 *)

\* what C15 says of one series in one state: k records appended
StorageRight(length, capacity, events) ==
    /\ length <= capacity
    /\ capacity % 128 = 0
    /\ events = (length + 127) \div 128
    /\ capacity = 128 * events

\* C15: a series' storage grows only when its length equals its capacity, and
\* then by exactly 128 records; in every state the length is at most the
\* capacity, the capacity is a multiple of 128, and k appended records have
\* caused ceil(k/128) growth events.
C15_StorageGrowsBy128WhenFull ==
    /\ [](/\ StorageRight(thermal_length, thermal_capacity, growths.thermal)
          /\ StorageRight(sun_sensor_length, sun_sensor_capacity, growths.sun))
    /\ [][(thermal_capacity' # thermal_capacity \/ growths'.thermal # growths.thermal) =>
            /\ thermal_length = thermal_capacity
            /\ thermal_capacity' = thermal_capacity + 128
            /\ growths'.thermal = growths.thermal + 1]_vars
    /\ [][(sun_sensor_capacity' # sun_sensor_capacity \/ growths'.sun # growths.sun) =>
            /\ sun_sensor_length = sun_sensor_capacity
            /\ sun_sensor_capacity' = sun_sensor_capacity + 128
            /\ growths'.sun = growths.sun + 1]_vars

\* 129 records appended to each series: two growth events each, 0 to 128 and
\* 128 to 256
C15_Witness ==
    /\ thermal_length = 129
    /\ growths.thermal = 2
    /\ thermal_capacity = 256
    /\ sun_sensor_length = 129
    /\ growths.sun = 2
    /\ sun_sensor_capacity = 256

----------------------------------------------------------------------------
(* C16 *)

\* the records that the frame put in the stream as `item` calibrates to
ThermalOf(item) ==
    [thermal_telemetry_timestamp |-> item.ts,
     CPU_C |-> [num |-> CpuRaw[item.v], den |-> 100],
     mirror_cell_C |-> [num |-> MirrorRaw[item.v], den |-> 100]]

SunOf(item) ==
    [sun_sensors_telemetry_timestamp |-> item.ts,
     sun_vector_x |-> [num |-> SunXRaw[item.v], den |-> 16384],
     sun_vector_y |-> [num |-> SunYRaw[item.v], den |-> 16384],
     sun_vector_z |-> [num |-> SunZRaw[item.v], den |-> 16384]]

\* what C16 says of one step that changes a series or its length: `rec` is
\* the record of the frame at hand
AppendedRight(array, length, arrayAfter, lengthAfter, rec) ==
    /\ lengthAfter = length + 1
    /\ arrayAfter[length + 1] = rec
    /\ \A i \in 1..length : arrayAfter[i] = array[i]

\* C16: an append, with or without a growth, adds one to the series length,
\* puts the new record at the old length (counted from 0) and leaves every
\* record appended before where it was; so during collection the i-th place
\* of each series holds the record of the i-th decoded frame.
C16_AppendKeepsEarlierRecords ==
    /\ [](/\ \A i \in 1..thermal_length :
                thermal_telemetry_array[i] = ThermalOf(sent[i])
          /\ \A i \in 1..sun_sensor_length :
                sun_sensor_telemetry_array[i] = SunOf(sent[i]))
    /\ [][(thermal_telemetry_array' # thermal_telemetry_array
           \/ thermal_length' # thermal_length) =>
            AppendedRight(thermal_telemetry_array, thermal_length,
                          thermal_telemetry_array', thermal_length',
                          ThermalOf(sent[n_calls]))]_vars
    /\ [][(sun_sensor_telemetry_array' # sun_sensor_telemetry_array
           \/ sun_sensor_length' # sun_sensor_length) =>
            AppendedRight(sun_sensor_telemetry_array, sun_sensor_length,
                          sun_sensor_telemetry_array', sun_sensor_length',
                          SunOf(sent[n_calls]))]_vars

\* the 129th record of each series has just been appended with a growth from
\* 128 to 256: it is at place 129 and the first and the 128th are where they
\* were
C16_Witness ==
    /\ pc = "read"
    /\ thermal_length = 129
    /\ thermal_capacity = 256
    /\ thermal_telemetry_array[129] = ThermalOf(sent[129])
    /\ thermal_telemetry_array[128] = ThermalOf(sent[128])
    /\ thermal_telemetry_array[1] = ThermalOf(sent[1])
    /\ sun_sensor_length = 129
    /\ sun_sensor_capacity = 256
    /\ sun_sensor_telemetry_array[129] = SunOf(sent[129])
    /\ sun_sensor_telemetry_array[1] = SunOf(sent[1])

----------------------------------------------------------------------------
(* C17 *)

\* the rows of a file are the lines of the first elements of a series, no
\* more of them than its length
ExportsOnlySeries(kind, csv, array, length) ==
    /\ Len(csv.rows) <= length
    /\ \A j \in 1..Len(csv.rows) :
           csv.rows[j] = CsvLine(kind, array[j], CSV_DECIMAL_PRECISION)
    /\ csv.status = 1 => Len(csv.rows) = length

\* C17: each series is sorted and compacted once, after the loop has ended
\* with READ_EOF and the file has been closed; once that is done the series
\* and its length do not change again; the file written from it holds the
\* lines of its first newLength elements and no element past them.
C17_ProcessedOnceThenExported ==
    /\ [](/\ ExportsOnlySeries("thermal", thermal_csv,
                               thermal_telemetry_array, thermal_length)
          /\ ExportsOnlySeries("sun", sun_csv,
                               sun_sensor_telemetry_array, sun_sensor_length)
          /\ (hist.thermal.n >= 0 \/ hist.sun.n >= 0) =>
                 read_state = "READ_EOF" /\ file_state = "closed")
    /\ [][hist'.thermal # hist.thermal =>
            /\ hist.thermal = NoHist
            /\ pc = "check"
            /\ read_state = "READ_EOF"
            /\ hist'.thermal.unsorted = thermal_telemetry_array
            /\ hist'.thermal.n = thermal_length]_vars
    /\ [][hist'.sun # hist.sun =>
            /\ hist.sun = NoHist
            /\ pc = "process_sun"
            /\ read_state = "READ_EOF"
            /\ hist'.sun.unsorted = sun_sensor_telemetry_array
            /\ hist'.sun.n = sun_sensor_length]_vars
    /\ [][hist.thermal.n >= 0 =>
            /\ thermal_telemetry_array' = thermal_telemetry_array
            /\ thermal_length' = thermal_length
            /\ thermal_csv' = thermal_csv]_vars
    /\ [][hist.sun.n >= 0 =>
            /\ sun_sensor_telemetry_array' = sun_sensor_telemetry_array
            /\ sun_sensor_length' = sun_sensor_length
            /\ sun_csv' = sun_csv]_vars
    /\ [][(pc \in {"check", "process_sun", "cleanup", "exit"}
           /\ (thermal_telemetry_array' # thermal_telemetry_array
               \/ thermal_length' # thermal_length)) =>
            hist'.thermal # hist.thermal]_vars
    /\ [][(pc \in {"check", "process_sun", "cleanup", "exit"}
           /\ (sun_sensor_telemetry_array' # sun_sensor_telemetry_array
               \/ sun_sensor_length' # sun_sensor_length)) =>
            hist'.sun # hist.sun]_vars

\* three frames collected, two timestamps: each series was compacted from 3 to
\* 2, an element past the length is still in the storage, and each file has
\* the two rows of the series
C17_Witness ==
    /\ pc = "exit"
    /\ exit_status = 0
    /\ hist.thermal.n = 3
    /\ thermal_length = 2
    /\ Len(thermal_telemetry_array) = 3
    /\ thermal_csv.status = 1
    /\ Len(thermal_csv.rows) = 2
    /\ hist.sun.n = 3
    /\ sun_sensor_length = 2
    /\ sun_csv.status = 1
    /\ Len(sun_csv.rows) = 2

----------------------------------------------------------------------------
(* C18 *)

\* a storage at the exit: released if there was one, never released twice
ReleasedOnce(mem, events) == mem = (IF events > 0 THEN "freed" ELSE "NULL")

\* C18: on every way out of main after the file was opened, the file has been
\* closed once and each series' storage, if it was ever allocated, released
\* once.  Nothing is released before main is on its way out, no read is made
\* on a closed file, no export uses a released storage, and nothing is done
\* after the exit.  A failed realloc releases both series and closes the file
\* and ends with a nonzero status.
C18_EverythingReleasedOnce ==
    /\ [](/\ fclose_count <= 1
          /\ thermal_mem # "double_freed"
          /\ sun_mem # "double_freed"
          /\ (thermal_mem = "freed" \/ sun_mem = "freed") => pc = "exit"
          /\ (pc = "exit" /\ file_state # "unopened") =>
                 /\ file_state = "closed"
                 /\ fclose_count = 1
                 /\ ReleasedOnce(thermal_mem, growths.thermal)
                 /\ ReleasedOnce(sun_mem, growths.sun))
    /\ [][pc # "exit"]_vars
    /\ [][n_calls' # n_calls => file_state = "open" /\ file_state' = "open"]_vars
    /\ [][(thermal_csv' # thermal_csv \/ hist'.thermal # hist.thermal) =>
            thermal_mem = "allocated" /\ thermal_mem' = "allocated"]_vars
    /\ [][(sun_csv' # sun_csv \/ hist'.sun # hist.sun) =>
            sun_mem = "allocated" /\ sun_mem' = "allocated"]_vars
    /\ [][(pc \in {"thermal", "sun"} /\ pc' = "exit") =>
            /\ exit_status' # 0
            /\ file_state' = "closed"
            /\ fclose_count' = 1
            /\ ReleasedOnce(thermal_mem', growths.thermal)
            /\ ReleasedOnce(sun_mem', growths.sun)]_vars

\* the realloc of the SunVector series failed on the first frame, the Thermal
\* series having got its storage: that storage is released, the file closed
\* once, the status 1
C18_Witness ==
    /\ pc = "exit"
    /\ exit_status = 1
    /\ read_state = "READ_OK"
    /\ growths = [thermal |-> 1, sun |-> 0]
    /\ thermal_mem = "freed"
    /\ sun_mem = "NULL"
    /\ file_state = "closed"
    /\ fclose_count = 1

----------------------------------------------------------------------------
(* C19 *)

\* C19: every READ_FAIL, from a wrong identifier or from a short read, comes
\* with a diagnostic that names the section that failed, what was expected and
\* what was read.  read_data_frame prints only when an identifier is wrong,
\* and main's message names nothing: this statement is violated.
C19_EveryFailureHasDiagnostic ==
    (n_calls > 0 /\ read_state = "READ_FAIL") =>
        /\ diag # NoDiag
        /\ diag.section = Fields[fail.field].section

----------------------------------------------------------------------------
(* C20 *)

\* the offset after the marker where the stated section i ends
StatedSectionEnd(i) == IF i = 7 THEN 110 ELSE StatedIdOffsets[i + 1]

\* the sections, in the stated order, that a frame starting after position m
\* does not hold in full with the right identifier
BadSections(s, m) ==
    { i \in 1..7 : ~IdBytesRight(s, m, i) \/ Len(s) - m < StatedSectionEnd(i) }

\* C20: the sections are read and validated in the order Platform, Memory,
\* CDH, Power, Thermal, AOCS, Payload.  A call that found the marker fails
\* exactly when some section has a wrong identifier or not all its bytes, and
\* it fails in the first such section: every section before it has been
\* consumed, no byte past it has; a wrong identifier that could be read stops
\* the call right after its two bytes, named in the diagnostic, before any
\* other field of the section is read; with a right identifier the call stops
\* where the bytes run out.
C20_FailsInFirstBadSection ==
    n_calls > 0 =>
        \A m \in {FirstMarkerEnd(stream, call_pos, header)} :
            m # -1 =>
                \A bad \in {BadSections(stream, m)} :
                    /\ read_state = "READ_FAIL" <=> bad # {}
                    /\ bad # {} =>
                          \A f \in {CHOOSE i \in bad : \A j \in bad : i <= j} :
                              /\ pos >= m + StatedIdOffsets[f]
                              /\ pos <= m + StatedSectionEnd(f)
                              /\ (Len(stream) >= m + StatedIdOffsets[f] + 2
                                  /\ ~IdBytesRight(stream, m, f)) =>
                                     /\ pos = m + StatedIdOffsets[f] + 2
                                     /\ diag.section = f
                                     /\ diag.expected = StatedIds[f]
                              /\ IdBytesRight(stream, m, f) => pos = Len(stream)

\* a frame whose Thermal identifier is wrong and that is cut in the AOCS
\* section: the call fails in the Thermal section, right after the identifier
C20_Witness ==
    /\ n_calls = 1
    /\ read_state = "READ_FAIL"
    /\ sync_pos # -1
    /\ BadSections(stream, sync_pos) = {5, 6, 7}
    /\ ~IdBytesRight(stream, sync_pos, 5)
    /\ Len(stream) - sync_pos > 57
    /\ pos = sync_pos + 51
    /\ diag.section = 5

----------------------------------------------------------------------------
(* C21 *)

\* fr holds, field by field, the wire bytes of the well-formed frame `item`
HoldsFrame(fr, item) ==
    \A k \in 1..NFields : fr[Fields[k].name] = FieldWire(k, item.ts, item.v)

\* the records that the well-formed frames of the stream calibrate to
SentRecords(kind) ==
    { IF kind = "thermal" THEN ThermalOf(sent[i]) ELSE SunOf(sent[i]) :
      i \in 1..Len(sent) }

\* C21: every record of a series was calibrated from the thermal/AOCS fields
\* and the rtc_s of one and the same frame whose read returned READ_OK.
\* When main calibrates, the last call returned READ_OK and the frame buffer
\* holds, in every field, the bytes of the frame that call decoded; until
\* the series are processed the i-th record of each is the record of the i-th
\* well-formed frame of the stream, and afterwards every record kept is the
\* record of one of them; a call that returned READ_FAIL or READ_EOF leaves
\* both series with one record per call before it and adds none.
C21_RecordsComeFromOneDecodedFrame ==
    /\ pc \in {"thermal", "sun"} =>
          /\ read_state = "READ_OK"
          /\ n_calls <= Len(sent)
          /\ HoldsFrame(frame, sent[n_calls])
          /\ thermal_length = (IF pc = "thermal" THEN n_calls - 1 ELSE n_calls)
          /\ sun_sensor_length = n_calls - 1
    /\ thermal_length <= Len(sent)
    /\ sun_sensor_length <= Len(sent)
    /\ hist.thermal.n = -1 =>
          \A i \in 1..thermal_length :
              thermal_telemetry_array[i] = ThermalOf(sent[i])
    /\ hist.sun.n = -1 =>
          \A i \in 1..sun_sensor_length :
              sun_sensor_telemetry_array[i] = SunOf(sent[i])
    /\ \A i \in 1..thermal_length :
          thermal_telemetry_array[i] \in SentRecords("thermal")
    /\ \A i \in 1..sun_sensor_length :
          sun_sensor_telemetry_array[i] \in SentRecords("sun")
    /\ (read_state \in {"READ_FAIL", "READ_EOF"} /\ hist.thermal.n = -1) =>
          /\ thermal_length = n_calls - 1
          /\ sun_sensor_length = n_calls - 1

\* two frames were decoded and kept, then a frame with a wrong Thermal
\* identifier failed: the buffer holds the rtc_s of the failed frame next to
\* the CPU_C of the frame before it, and no record was made from it
C21_Witness ==
    /\ pc = "exit"
    /\ read_state = "READ_FAIL"
    /\ n_calls = 3
    /\ sent[2].ts = 50
    /\ frame["rtc_s"] = <<0, 0, 0, 100>>
    /\ frame["CPU_C"] = BE16(ToUint16(CpuRaw[sent[2].v]))
    /\ ~HoldsFrame(frame, sent[2])
    /\ thermal_telemetry_array = <<ThermalOf(sent[1]), ThermalOf(sent[2])>>
    /\ sun_sensor_telemetry_array = <<SunOf(sent[1]), SunOf(sent[2])>>

----------------------------------------------------------------------------
(* C22 *)

\* what C22 says of the two series in one state
Aligned ==
    /\ thermal_length = sun_sensor_length
    /\ SeriesTs("thermal", thermal_telemetry_array, thermal_length)
           = SeriesTs("sun", sun_sensor_telemetry_array, sun_sensor_length)

\* each number of a sequence is below the next
StrictlyAscending(ts) == \A i \in 1..(Len(ts) - 1) : ts[i] < ts[i + 1]

\* C22: the Thermal and SunVector series stay aligned.  At the end of every
\* loop iteration, and from there until the processing starts, both have the
\* same length and the same timestamp at each index; once both have been
\* compacted they have again the same length and the same timestamps, and
\* these are strictly ascending.
C22_SeriesStayAligned ==
    /\ pc \in {"read", "after_loop", "check"} => Aligned
    /\ (hist.thermal.n >= 0 /\ hist.sun.n >= 0) =>
          /\ Aligned
          /\ StrictlyAscending(SeriesTs("thermal", thermal_telemetry_array,
                                        thermal_length))
          /\ StrictlyAscending(SeriesTs("sun", sun_sensor_telemetry_array,
                                        sun_sensor_length))

\* frames with rtc_s 100, 100, 50: both series end with 50 then 100, and the
\* Thermal record of 100 comes from the first frame while the SunVector
\* record of 100 comes from the second
C22_Witness ==
    /\ pc = "exit"
    /\ exit_status = 0
    /\ [i \in 1..Len(sent) |-> sent[i].ts] = <<100, 100, 50>>
    /\ hist.thermal.n = 3
    /\ hist.sun.n = 3
    /\ thermal_length = 2
    /\ sun_sensor_length = 2
    /\ SeriesTs("thermal", thermal_telemetry_array, 2) = <<50, 100>>
    /\ SeriesTs("sun", sun_sensor_telemetry_array, 2) = <<50, 100>>
    /\ thermal_telemetry_array[2] = ThermalOf(sent[1])
    /\ sun_sensor_telemetry_array[2] = SunOf(sent[2])

----------------------------------------------------------------------------
(* C23 *)

\* nothing has been sorted, compacted or exported
NothingProcessed ==
    /\ hist = [thermal |-> NoHist, sun |-> NoHist]
    /\ thermal_csv = NoCsv
    /\ sun_csv = NoCsv

\* C23: main exits with status 0 if and only if the file opened, no
\* allocation failed, the read loop ended with READ_EOF and at least one frame
\* was decoded.  A run ends with status 0 or 1; it is 0 exactly when the file
\* was opened and closed, the last read returned READ_EOF and a read before
\* it returned READ_OK; a failed fopen and a failed realloc both end the run
\* at once with status 1; READ_EOF on the first call ends it with status 1
\* and nothing sorted or exported; and a run that has processed both series
\* ends with status 0 whatever the exports returned.
C23_ExitStatus ==
    /\ [](pc = "exit" =>
            /\ exit_status \in {0, 1}
            /\ exit_status = 0 <=>
                   /\ file_state = "closed"
                   /\ read_state = "READ_EOF"
                   /\ n_calls >= 2
            /\ (read_state = "READ_EOF" /\ n_calls = 1) =>
                   /\ exit_status = 1
                   /\ NothingProcessed
            /\ exit_status = 0 <=> hist.sun.n >= 0
            /\ exit_status = 0 =>
                   /\ hist.thermal.n >= 1
                   /\ thermal_csv.status \in {-1, 1}
                   /\ sun_csv.status \in {-1, 1})
    /\ [](pc # "exit" => exit_status = -1)
    /\ [][(pc = "start" /\ file_state' = "unopened") =>
            /\ pc' = "exit"
            /\ exit_status' = 1]_vars
    /\ [][(pc \in {"thermal", "sun"} /\ thermal_length' = thermal_length
           /\ sun_sensor_length' = sun_sensor_length) =>
            /\ pc' = "exit"
            /\ exit_status' = 1
            /\ NothingProcessed']_vars
    /\ [][pc = "cleanup" => exit_status' = 0]_vars

\* three frames decoded, the loop ended with READ_EOF, the Thermal export
\* failed after the column line and the SunVector export was cut short: the
\* run has ended with status 0
C23_Witness ==
    /\ pc = "exit"
    /\ exit_status = 0
    /\ read_state = "READ_EOF"
    /\ n_calls = 4
    /\ file_state = "closed"
    /\ thermal_csv.status = -1
    /\ thermal_csv.rows = <<>>
    /\ sun_csv.status = -1
    /\ Len(sun_csv.rows) = 1
    /\ sun_sensor_length = 3

====
